---- MODULE Spec2Model ----
(***************************************************************************)
(* TruthGuard backend: the claim verification core.                        *)
(*                                                                         *)
(* Python str values are modelled as sequences of one-character strings,   *)
(* so that lower(), strip(), find(), the substring test `a in b`, the      *)
(* f-string prompts, json.dumps and json.loads are computed character by   *)
(* character as the interpreter computes them.  Python floats are modelled *)
(* as exact rationals [n, d] in lowest terms (binary rounding of the order *)
(* of 1e-16 is not modelled).                                              *)
(***************************************************************************)
EXTENDS Integers, Sequences, FiniteSets, TLC

\* F(e), with e evaluated once, as Python evaluates the argument of a call or
\* the value of a local variable once (TLC evaluates an operator's argument
\* and a LET definition at every use)
Bind(e, F(_)) == CHOOSE r \in {F(x) : x \in {e}} : TRUE

\* F(a, b), with a and b evaluated once
Bind2(a, b, F(_, _)) == CHOOSE r \in {F(x, y) : x \in {a}, y \in {b}} : TRUE

----------------------------------------------------------------------------
\* Text primitives (Python str methods)

UpperChars ==
    <<"A","B","C","D","E","F","G","H","I","J","K","L","M",
      "N","O","P","Q","R","S","T","U","V","W","X","Y","Z">>

LowerChars ==
    <<"a","b","c","d","e","f","g","h","i","j","k","l","m",
      "n","o","p","q","r","s","t","u","v","w","x","y","z">>

DigitChars == <<"0","1","2","3","4","5","6","7","8","9">>

\* str.lower() on one character
LowerChar(c) ==
    IF \E i \in 1..26 : UpperChars[i] = c
    THEN LowerChars[CHOOSE i \in 1..26 : UpperChars[i] = c]
    ELSE c

\* str.lower()
Lower(s) == Bind(s, LAMBDA x : [i \in 1..Len(x) |-> LowerChar(x[i])])

\* the characters str.strip() and str.split() treat as whitespace
SpaceChars == {" ", "\n", "\t", "\r"}
IsSpace(c) == c \in SpaceChars

\* sub in s
Contains(s, sub) ==
    Bind2(s, sub, LAMBDA x, y :
        \E i \in 0..(Len(x) - Len(y)) : \A j \in 1..Len(y) : x[i + j] = y[j])

\* s.find(c) for a one-character c, as a 1-based position; 0 when absent
Find(s, c) ==
    Bind(s, LAMBDA x :
        IF \E i \in 1..Len(x) : x[i] = c
        THEN CHOOSE i \in 1..Len(x) : x[i] = c /\ \A j \in 1..(i - 1) : x[j] # c
        ELSE 0)

\* s.rfind(c) for a one-character c, as a 1-based position; 0 when absent
RFind(s, c) ==
    Bind(s, LAMBDA x :
        IF \E i \in 1..Len(x) : x[i] = c
        THEN CHOOSE i \in 1..Len(x) : x[i] = c /\ \A j \in (i + 1)..Len(x) : x[j] # c
        ELSE 0)

\* str.strip()
Strip(s) ==
    Bind(s, LAMBDA x :
        IF \A i \in 1..Len(x) : IsSpace(x[i]) THEN << >>
        ELSE SubSeq(x,
                    CHOOSE i \in 1..Len(x) :
                        ~IsSpace(x[i]) /\ \A j \in 1..(i - 1) : IsSpace(x[j]),
                    CHOOSE i \in 1..Len(x) :
                        ~IsSpace(x[i]) /\ \A j \in (i + 1)..Len(x) : IsSpace(x[j])))

\* the end of the run of characters outside stops that starts at position i of s
RunEnd(s, i, stops) ==
    IF \E k \in i..Len(s) : s[k] \in stops
    THEN (CHOOSE k \in i..Len(s) : s[k] \in stops /\ \A j \in i..(k - 1) : s[j] \notin stops) - 1
    ELSE Len(s)

\* str.split(): the maximal runs of non-whitespace characters, in order
RECURSIVE SplitFrom(_, _)
SplitFrom(s, i) ==
    Bind2(s, i, LAMBDA x, a :
        IF a > Len(x) THEN << >>
        ELSE IF IsSpace(x[a]) THEN SplitFrom(x, a + 1)
        ELSE Bind(RunEnd(x, a, SpaceChars), LAMBDA e :
                 <<SubSeq(x, a, e)>> \o SplitFrom(x, e + 1)))

Split(s) == SplitFrom(s, 1)

\* sep.join(parts)
RECURSIVE Join(_, _)
Join(sep, parts) ==
    Bind(parts, LAMBDA xs :
        IF Len(xs) = 0 THEN << >>
        ELSE IF Len(xs) = 1 THEN xs[1]
        ELSE xs[1] \o sep \o Join(sep, Tail(xs)))

\* str(n) for an int n >= 0
RECURSIVE IntToStr(_)
IntToStr(n) ==
    Bind(n, LAMBDA k :
        IF k < 10 THEN <<DigitChars[k + 1]>>
        ELSE IntToStr(k \div 10) \o <<DigitChars[(k % 10) + 1]>>)

\* sum(1 for indicator in indicators if indicator in text)
CountIn(indicators, text) ==
    Bind(text, LAMBDA x :
        Cardinality({i \in 1..Len(indicators) : Contains(x, indicators[i])}))

\* any(word in text for word in words)
AnyIn(words, text) ==
    Bind2(words, text, LAMBDA ws, x : \E i \in 1..Len(ws) : Contains(x, ws[i]))

----------------------------------------------------------------------------
\* Python float, as an exact rational in lowest terms

RECURSIVE GCD(_, _)
GCD(a, b) == Bind(<<a, b>>, LAMBDA p : IF p[2] = 0 THEN p[1] ELSE GCD(p[2], p[1] % p[2]))

Abs(x) == IF x < 0 THEN -x ELSE x

\* the rational n/d (d > 0) in lowest terms
Frac(n, d) ==
    Bind(<<n, d>>, LAMBDA p :
        IF p[1] = 0 THEN [n |-> 0, d |-> 1]
        ELSE Bind(GCD(Abs(p[1]), p[2]), LAMBDA g : [n |-> p[1] \div g, d |-> p[2] \div g]))

FAdd(a, b) == Bind(<<a, b>>, LAMBDA p : Frac(p[1].n * p[2].d + p[2].n * p[1].d, p[1].d * p[2].d))
FMul(a, b) == Bind(<<a, b>>, LAMBDA p : Frac(p[1].n * p[2].n, p[1].d * p[2].d))
FLeq(a, b) == a.n * b.d <= b.n * a.d
FLt(a, b) == a.n * b.d < b.n * a.d
FMin(a, b) == Bind(<<a, b>>, LAMBDA p : IF FLeq(p[1], p[2]) THEN p[1] ELSE p[2])
FInt(k) == [n |-> k, d |-> 1]
\* the interval [0, 1]
InUnit(x) == FLeq(FInt(0), x) /\ FLeq(x, FInt(1))

RECURSIVE Pow10(_)
Pow10(k) == IF k = 0 THEN 1 ELSE 10 * Pow10(k - 1)

\* the k decimal digits of m, zero padded on the left
RECURSIVE Digits(_, _)
Digits(m, k) ==
    IF k = 0 THEN << >> ELSE Digits(m \div 10, k - 1) \o <<DigitChars[(m % 10) + 1]>>

----------------------------------------------------------------------------
\* Python values that cross json.dumps / json.loads.  Every value has the same
\* record shape: t is the Python type, s the characters of a str, n the number
\* of an int, float or bool, items the elements of a list or the [k, v]
\* members of a dict in insertion order.

JNull == [t |-> "null", s |-> << >>, n |-> FInt(0), items |-> << >>]
JStr(x) == [t |-> "str", s |-> x, n |-> FInt(0), items |-> << >>]
JInt(k) == [t |-> "int", s |-> << >>, n |-> FInt(k), items |-> << >>]
JFloat(x) == [t |-> "float", s |-> << >>, n |-> x, items |-> << >>]
JBool(b) == [t |-> "bool", s |-> << >>, n |-> FInt(IF b THEN 1 ELSE 0), items |-> << >>]
JList(xs) == [t |-> "list", s |-> << >>, n |-> FInt(0), items |-> xs]
JDict(ms) == [t |-> "dict", s |-> << >>, n |-> FInt(0), items |-> ms]

\* d.get(key, default) on a dict: a repeated key holds its last value
DictGet(d, key, default) ==
    Bind(d.items, LAMBDA ms :
        IF \E i \in 1..Len(ms) : ms[i].k = key
        THEN ms[CHOOSE i \in 1..Len(ms) :
                   ms[i].k = key /\ \A j \in (i + 1)..Len(ms) : ms[j].k # key].v
        ELSE default)

\* key in d
DictHas(d, key) == Bind(d.items, LAMBDA ms : \E i \in 1..Len(ms) : ms[i].k = key)

\* repr of a non-negative float with a finite decimal expansion (0.6 -> "0.6", 1 -> "1.0")
FloatRepr(x0) ==
    Bind(x0, LAMBDA x :
        Bind(CHOOSE k \in 1..6 :
                 (x.n * Pow10(k)) % x.d = 0 /\ \A j \in 1..(k - 1) : (x.n * Pow10(j)) % x.d # 0,
             LAMBDA k :
                 IntToStr(((x.n * Pow10(k)) \div x.d) \div Pow10(k)) \o <<".">>
                 \o Digits(((x.n * Pow10(k)) \div x.d) % Pow10(k), k)))

\* json.dumps of a str: the characters that need a two-character escape
NeedsEscape(c) == c \in {"\"", "\\", "\n", "\t", "\r"}

\* the text up to the first escaped character is copied, then the escape, then the rest
\* the escape letter of a character that needs one
EscapeOf(c) == CASE c = "\n" -> "n" [] c = "\t" -> "t" [] c = "\r" -> "r" [] OTHER -> c

RECURSIVE EscapeStr(_)
EscapeStr(x0) ==
    Bind(x0, LAMBDA x :
        IF \A i \in 1..Len(x) : ~NeedsEscape(x[i]) THEN x
        ELSE Bind(CHOOSE i \in 1..Len(x) :
                      NeedsEscape(x[i]) /\ \A j \in 1..(i - 1) : ~NeedsEscape(x[j]),
                  LAMBDA i :
                      SubSeq(x, 1, i - 1) \o <<"\\", EscapeOf(x[i])>>
                      \o EscapeStr(SubSeq(x, i + 1, Len(x)))))

\* json.dumps(value) with the default separators ", " and ": "
RECURSIVE Dumps(_)
DumpsAll(xs) == [i \in 1..Len(xs) |-> Dumps(xs[i])]
DumpsMembers(ms) ==
    [i \in 1..Len(ms) |-> <<"\"">> \o EscapeStr(ms[i].k) \o <<"\"", ":", " ">> \o Dumps(ms[i].v)]
Dumps(v0) ==
    Bind(v0, LAMBDA v :
        CASE v.t = "null" -> <<"n","u","l","l">>
          [] v.t = "bool" -> IF v.n.n = 1 THEN <<"t","r","u","e">> ELSE <<"f","a","l","s","e">>
          [] v.t = "str" -> <<"\"">> \o EscapeStr(v.s) \o <<"\"">>
          [] v.t = "int" -> (IF v.n.n < 0 THEN <<"-">> ELSE << >>) \o IntToStr(Abs(v.n.n))
          [] v.t = "float" -> (IF v.n.n < 0 THEN <<"-">> ELSE << >>)
                              \o FloatRepr([n |-> Abs(v.n.n), d |-> v.n.d])
          [] v.t = "list" -> <<"[">> \o Join(<<",", " ">>, DumpsAll(v.items)) \o <<"]">>
          [] v.t = "dict" -> <<"{">> \o Join(<<",", " ">>, DumpsMembers(v.items)) \o <<"}">>)

\* json.loads.  A parse step returns [ok, v, next]: the value read and the
\* position after it.  Not read: exponents, NaN, Infinity and the escapes
\* \b \f \uXXXX (none occurs in the texts the model feeds it).

NoParse == [ok |-> FALSE, v |-> JNull, next |-> 0]
Parsed(v, next) == [ok |-> TRUE, v |-> v, next |-> next]

IsJsonWs(c) == c \in {" ", "\n", "\t", "\r"}
IsDigit(c) == \E i \in 1..10 : DigitChars[i] = c
DigitVal(c) == (CHOOSE i \in 1..10 : DigitChars[i] = c) - 1

\* the first position at or after i that holds no JSON whitespace
SkipWs(s, i) ==
    IF \A k \in i..Len(s) : IsJsonWs(s[k]) THEN Len(s) + 1
    ELSE CHOOSE k \in i..Len(s) : ~IsJsonWs(s[k]) /\ \A j \in i..(k - 1) : IsJsonWs(s[j])

\* the number of consecutive backslashes that end right before position j
BackslashRun(s, lo, j) ==
    CHOOSE r \in 0..(j - lo) :
        /\ \A q \in 1..r : s[j - q] = "\\"
        /\ (r = j - lo \/ s[j - r - 1] # "\\")

\* the text of a JSON string body: [ok, s]; up to the first backslash the
\* text is copied, then the escape, then the rest
\* the character a backslash and c stand for
UnescapeOf(c) == CASE c = "n" -> "\n" [] c = "t" -> "\t" [] c = "r" -> "\r" [] OTHER -> c

RECURSIVE Unescape(_)
Unescape(x0) ==
    Bind(x0, LAMBDA x :
        IF \A i \in 1..Len(x) : x[i] # "\\" THEN [ok |-> TRUE, s |-> x]
        ELSE Bind(CHOOSE i \in 1..Len(x) : x[i] = "\\" /\ \A j \in 1..(i - 1) : x[j] # "\\",
                  LAMBDA i :
                      IF i = Len(x) \/ x[i + 1] \notin {"\"", "\\", "/", "n", "t", "r"}
                      THEN [ok |-> FALSE, s |-> << >>]
                      ELSE Bind(Unescape(SubSeq(x, i + 2, Len(x))), LAMBDA r :
                               [ok |-> r.ok,
                                s |-> SubSeq(x, 1, i - 1) \o <<UnescapeOf(x[i + 1])>> \o r.s])))

\* whether position j holds a quote that no backslash escapes
Closes(s, i, j) == s[j] = "\"" /\ BackslashRun(s, i + 1, j) % 2 = 0

\* s[i] is the opening quote; the string ends at the first quote that no
\* backslash escapes; a raw control character inside is an error (strict mode)
ParseString(s, i) ==
    IF ~(\E j \in (i + 1)..Len(s) : Closes(s, i, j)) THEN NoParse
    ELSE Bind(CHOOSE j \in (i + 1)..Len(s) :
                  Closes(s, i, j) /\ \A q \in (i + 1)..(j - 1) : s[q] # "\"" \/ ~Closes(s, i, q),
              LAMBDA e :
                  Bind(SubSeq(s, i + 1, e - 1), LAMBDA raw :
                      IF \E q \in 1..Len(raw) : raw[q] \in {"\n", "\t", "\r"} THEN NoParse
                      ELSE Bind(Unescape(raw), LAMBDA u :
                               IF u.ok THEN Parsed(JStr(u.s), e + 1) ELSE NoParse)))

\* the end of the run of digits that starts at i (i - 1 when s[i] is no digit)
DigitsEnd(s, i) ==
    IF i > Len(s) \/ ~IsDigit(s[i]) THEN i - 1
    ELSE IF \A k \in i..Len(s) : IsDigit(s[k]) THEN Len(s)
    ELSE (CHOOSE k \in i..Len(s) : ~IsDigit(s[k]) /\ \A j \in i..(k - 1) : IsDigit(s[j])) - 1

RECURSIVE DigitsValue(_)
DigitsValue(ds0) ==
    Bind(ds0, LAMBDA ds :
        IF Len(ds) = 0 THEN 0
        ELSE 10 * DigitsValue(SubSeq(ds, 1, Len(ds) - 1)) + DigitVal(ds[Len(ds)]))

\* the number whose sign is neg, whose integer digits are s[a..ie] and whose
\* fraction digits, if any, are s[ie+2..fe]
NumberValue(s, neg, a, ie, fe) ==
    Bind(IF fe > ie
         THEN Frac(DigitsValue(SubSeq(s, a, ie)) * Pow10(fe - ie - 1)
                   + DigitsValue(SubSeq(s, ie + 2, fe)), Pow10(fe - ie - 1))
         ELSE FInt(DigitsValue(SubSeq(s, a, ie))),
         LAMBDA mag :
             IF fe > ie
             THEN Parsed(JFloat([n |-> IF neg THEN -mag.n ELSE mag.n, d |-> mag.d]), fe + 1)
             ELSE Parsed(JInt(IF neg THEN -mag.n ELSE mag.n), ie + 1))

\* -?(0|[1-9][0-9]*)(\.[0-9]+)? : an int without a fraction, a float with one
ParseNumber(s, i) ==
    Bind(IF s[i] = "-" THEN i + 1 ELSE i, LAMBDA a :
        Bind(IF a <= Len(s) /\ s[a] = "0" THEN a ELSE DigitsEnd(s, a), LAMBDA ie :
            IF ie < a THEN NoParse
            ELSE IF ie + 2 <= Len(s) /\ s[ie + 1] = "." /\ IsDigit(s[ie + 2])
            THEN NumberValue(s, s[i] = "-", a, ie, DigitsEnd(s, ie + 2))
            ELSE NumberValue(s, s[i] = "-", a, ie, ie)))

StartsWith(s, i, lit) ==
    i + Len(lit) - 1 <= Len(s) /\ \A j \in 1..Len(lit) : s[i + j - 1] = lit[j]

RECURSIVE ParseValue(_, _), ParseElements(_, _, _), ParseMembers(_, _, _)

\* the value that starts at position i0, after whitespace
ParseValue(s, i0) ==
    Bind(SkipWs(s, i0), LAMBDA i :
    IF i > Len(s) THEN NoParse
    ELSE CASE s[i] = "\"" -> ParseString(s, i)
           [] s[i] = "{" ->
                Bind(SkipWs(s, i + 1), LAMBDA j :
                    IF j <= Len(s) /\ s[j] = "}" THEN Parsed(JDict(<< >>), j + 1)
                    ELSE ParseMembers(s, j, << >>))
           [] s[i] = "[" ->
                Bind(SkipWs(s, i + 1), LAMBDA j :
                    IF j <= Len(s) /\ s[j] = "]" THEN Parsed(JList(<< >>), j + 1)
                    ELSE ParseElements(s, j, << >>))
           [] s[i] = "-" \/ IsDigit(s[i]) -> ParseNumber(s, i)
           [] StartsWith(s, i, <<"t","r","u","e">>) -> Parsed(JBool(TRUE), i + 4)
           [] StartsWith(s, i, <<"f","a","l","s","e">>) -> Parsed(JBool(FALSE), i + 5)
           [] StartsWith(s, i, <<"n","u","l","l">>) -> Parsed(JNull, i + 4)
           [] OTHER -> NoParse)

\* after a value of a list or dict that ends before position j: the closing
\* bracket ends it with the items in acc, a comma continues at the next item
AfterItem(s, j, close, acc, More(_, _, _)) ==
    IF j > Len(s) THEN NoParse
    ELSE IF s[j] = close
    THEN Parsed(IF close = "]" THEN JList(acc) ELSE JDict(acc), j + 1)
    ELSE IF s[j] = "," THEN Bind(SkipWs(s, j + 1), LAMBDA i : More(s, i, acc))
    ELSE NoParse

\* the elements of a list from position i on, after the elements in acc
ParseElements(s, i, acc) ==
    Bind(ParseValue(s, i), LAMBDA r :
        IF ~r.ok THEN NoParse
        ELSE Bind(<<SkipWs(s, r.next), Append(acc, r.v)>>, LAMBDA a :
                 AfterItem(s, a[1], "]", a[2], ParseElements)))

\* the members of a dict from position i on, after the members in acc
ParseMembers(s, i, acc) ==
    IF i > Len(s) \/ s[i] # "\"" THEN NoParse
    ELSE Bind(ParseString(s, i), LAMBDA k :
        IF ~k.ok THEN NoParse
        ELSE Bind(SkipWs(s, k.next), LAMBDA c :
            IF c > Len(s) \/ s[c] # ":" THEN NoParse
            ELSE Bind(ParseValue(s, c + 1), LAMBDA r :
                IF ~r.ok THEN NoParse
                ELSE Bind(<<SkipWs(s, r.next), Append(acc, [k |-> k.v.s, v |-> r.v])>>,
                          LAMBDA a : AfterItem(s, a[1], "}", a[2], ParseMembers)))))

\* json.loads(text): [ok, v]; ok = FALSE is json.JSONDecodeError
Loads(text) ==
    Bind(text, LAMBDA s :
        Bind(ParseValue(s, 1), LAMBDA r :
            IF r.ok /\ SkipWs(s, r.next) > Len(s)
            THEN [ok |-> TRUE, v |-> r.v]
            ELSE [ok |-> FALSE, v |-> JNull]))

----------------------------------------------------------------------------
\* String literals of app/services/llm.py

\* verify_claim's prompt (llm.py 366-381): the text before {claim}, between {claim}
\* and {evidence_text}, and after {evidence_text}

\* You are a fact-checking expert. Analyze the following claim and evidence to determine  ...
VerifyPromptHead ==
    <<"Y","o","u"," ","a","r","e"," ","a"," ","f","a","c","t","-","c","h","e","c","k","i","n",
      "g"," ","e","x","p","e","r","t","."," ","A","n","a","l","y","z","e"," ","t","h","e"," ",
      "f","o","l","l","o","w","i","n","g"," ","c","l","a","i","m"," ","a","n","d"," ","e","v",
      "i","d","e","n","c","e"," ","t","o"," ","d","e","t","e","r","m","i","n","e"," ","i","t",
      "s"," ","v","e","r","a","c","i","t","y",".","\n","\n","C","l","a","i","m",":"," ">>

\* \n\nEvidence:\n
VerifyPromptEvidence ==
    <<"\n","\n","E","v","i","d","e","n","c","e",":","\n">>

\* \n\nProvide your analysis in JSON format with the following structure:\n{\n  "verdict" ...
VerifyPromptTail ==
    <<"\n","\n","P","r","o","v","i","d","e"," ","y","o","u","r"," ","a","n","a","l","y","s","i",
      "s"," ","i","n"," ","J","S","O","N"," ","f","o","r","m","a","t"," ","w","i","t","h"," ",
      "t","h","e"," ","f","o","l","l","o","w","i","n","g"," ","s","t","r","u","c","t","u","r",
      "e",":","\n","{","\n"," "," ","\"","v","e","r","d","i","c","t","\"",":"," ","\"","t","r",
      "u","e","\""," ","|"," ","\"","f","a","l","s","e","\""," ","|"," ","\"","m","i","s","l",
      "e","a","d","i","n","g","\""," ","|"," ","\"","u","n","v","e","r","i","f","i","e","d",
      "\"",",","\n"," "," ","\"","c","o","n","f","i","d","e","n","c","e","\"",":"," ","0",".",
      "0","-","1",".","0",",","\n"," "," ","\"","e","x","p","l","a","n","a","t","i","o","n",
      "\"",":"," ","\"","D","e","t","a","i","l","e","d"," ","e","x","p","l","a","n","a","t","i",
      "o","n"," ","o","f"," ","y","o","u","r"," ","r","e","a","s","o","n","i","n","g","\"",",",
      "\n"," "," ","\"","c","i","t","a","t","i","o","n","s","\"",":"," ","[","\"","s","o","u",
      "r","c","e","1","\"",","," ","\"","s","o","u","r","c","e","2","\"","]","\n","}","\n","\n",
      "J","S","O","N",":">>

\* \n\nImportant: Respond with valid JSON only. Do not include any text before or after t ...
JsonPromptSuffix ==
    <<"\n","\n","I","m","p","o","r","t","a","n","t",":"," ","R","e","s","p","o","n","d"," ","w",
      "i","t","h"," ","v","a","l","i","d"," ","J","S","O","N"," ","o","n","l","y","."," ","D",
      "o"," ","n","o","t"," ","i","n","c","l","u","d","e"," ","a","n","y"," ","t","e","x","t",
      " ","b","e","f","o","r","e"," ","o","r"," ","a","f","t","e","r"," ","t","h","e"," ","J",
      "S","O","N",".">>

\* Source 
S_Source ==
    <<"S","o","u","r","c","e"," ">>

\* Unknown
S_Unknown ==
    <<"U","n","k","n","o","w","n">>

\* true
V_true ==
    <<"t","r","u","e">>

\* false
V_false ==
    <<"f","a","l","s","e">>

\* misleading
V_misleading ==
    <<"m","i","s","l","e","a","d","i","n","g">>

\* unverified
V_unverified ==
    <<"u","n","v","e","r","i","f","i","e","d">>

\* verdict
K_verdict ==
    <<"v","e","r","d","i","c","t">>

\* confidence
K_confidence ==
    <<"c","o","n","f","i","d","e","n","c","e">>

\* explanation
K_explanation ==
    <<"e","x","p","l","a","n","a","t","i","o","n">>

\* citations
K_citations ==
    <<"c","i","t","a","t","i","o","n","s">>

\* _rule_based_fallback: false_indicators (llm.py 310)
fallback_false_indicators ==
    <<
      <<"n","e","v","e","r"," ","h","a","p","p","e","n","e","d">>,
      <<"f","a","k","e">>,
      <<"h","o","a","x">>,
      <<"c","o","n","s","p","i","r","a","c","y">>,
      <<"f","a","l","s","e">>,
      <<"n","o","t"," ","t","r","u","e">> >>

\* _rule_based_fallback: true_indicators (llm.py 311)
fallback_true_indicators ==
    <<
      <<"c","o","n","f","i","r","m","e","d">>,
      <<"v","e","r","i","f","i","e","d">>,
      <<"p","r","o","v","e","n">>,
      <<"f","a","c","t">>,
      <<"t","r","u","e">>,
      <<"a","c","c","u","r","a","t","e">> >>

\* _rule_based_fallback: misleading_indicators (llm.py 312)
fallback_misleading_indicators ==
    <<
      <<"p","a","r","t","i","a","l","l","y">>,
      <<"s","o","m","e","w","h","a","t">>,
      <<"m","i","s","l","e","a","d","i","n","g">>,
      <<"o","u","t"," ","o","f"," ","c","o","n","t","e","x","t">> >>

\* Unable to verify using LLM. Please ensure a local LLM endpoint is running (e.g., Local ...
FallbackExplUnverified ==
    <<"U","n","a","b","l","e"," ","t","o"," ","v","e","r","i","f","y"," ","u","s","i","n","g",
      " ","L","L","M","."," ","P","l","e","a","s","e"," ","e","n","s","u","r","e"," ","a"," ",
      "l","o","c","a","l"," ","L","L","M"," ","e","n","d","p","o","i","n","t"," ","i","s"," ",
      "r","u","n","n","i","n","g"," ","(","e",".","g",".",","," ","L","o","c","a","l","A","I",
      ","," ","l","l","a","m","a",".","c","p","p",","," ","o","r"," ","T","e","x","t","G","e",
      "n"," ","W","e","b","U","I",")"," ","a","t"," ","t","h","e"," ","c","o","n","f","i","g",
      "u","r","e","d"," ","e","n","d","p","o","i","n","t",".">>

\* Based on keyword analysis, this claim appears to be false. However, this is a fallback ...
FallbackExplFalse ==
    <<"B","a","s","e","d"," ","o","n"," ","k","e","y","w","o","r","d"," ","a","n","a","l","y",
      "s","i","s",","," ","t","h","i","s"," ","c","l","a","i","m"," ","a","p","p","e","a","r",
      "s"," ","t","o"," ","b","e"," ","f","a","l","s","e","."," ","H","o","w","e","v","e","r",
      ","," ","t","h","i","s"," ","i","s"," ","a"," ","f","a","l","l","b","a","c","k"," ","a",
      "n","a","l","y","s","i","s"," ","-"," ","f","o","r"," ","a","c","c","u","r","a","t","e",
      " ","v","e","r","i","f","i","c","a","t","i","o","n",","," ","p","l","e","a","s","e"," ",
      "s","e","t"," ","u","p"," ","a"," ","l","o","c","a","l"," ","L","L","M"," ","e","n","d",
      "p","o","i","n","t",".">>

\* Based on keyword analysis, this claim appears to be true. However, this is a fallback  ...
FallbackExplTrue ==
    <<"B","a","s","e","d"," ","o","n"," ","k","e","y","w","o","r","d"," ","a","n","a","l","y",
      "s","i","s",","," ","t","h","i","s"," ","c","l","a","i","m"," ","a","p","p","e","a","r",
      "s"," ","t","o"," ","b","e"," ","t","r","u","e","."," ","H","o","w","e","v","e","r",",",
      " ","t","h","i","s"," ","i","s"," ","a"," ","f","a","l","l","b","a","c","k"," ","a","n",
      "a","l","y","s","i","s"," ","-"," ","f","o","r"," ","a","c","c","u","r","a","t","e"," ",
      "v","e","r","i","f","i","c","a","t","i","o","n",","," ","p","l","e","a","s","e"," ","s",
      "e","t"," ","u","p"," ","a"," ","l","o","c","a","l"," ","L","L","M"," ","e","n","d","p",
      "o","i","n","t",".">>

\* Based on keyword analysis, this claim may be misleading. However, this is a fallback a ...
FallbackExplMisleading ==
    <<"B","a","s","e","d"," ","o","n"," ","k","e","y","w","o","r","d"," ","a","n","a","l","y",
      "s","i","s",","," ","t","h","i","s"," ","c","l","a","i","m"," ","m","a","y"," ","b","e",
      " ","m","i","s","l","e","a","d","i","n","g","."," ","H","o","w","e","v","e","r",","," ",
      "t","h","i","s"," ","i","s"," ","a"," ","f","a","l","l","b","a","c","k"," ","a","n","a",
      "l","y","s","i","s"," ","-"," ","f","o","r"," ","a","c","c","u","r","a","t","e"," ","v",
      "e","r","i","f","i","c","a","t","i","o","n",","," ","p","l","e","a","s","e"," ","s","e",
      "t"," ","u","p"," ","a"," ","l","o","c","a","l"," ","L","L","M"," ","e","n","d","p","o",
      "i","n","t",".">>

\* _rule_based_verify_claim: supporting language (llm.py 216)
supporting_words ==
    <<
      <<"c","o","n","f","i","r","m">>,
      <<"v","e","r","i","f","y">>,
      <<"t","r","u","e">>,
      <<"a","c","c","u","r","a","t","e">>,
      <<"c","o","r","r","e","c","t">>,
      <<"v","a","l","i","d">> >>

\* _rule_based_verify_claim: contradicting language (llm.py 218)
contradicting_words ==
    <<
      <<"f","a","l","s","e">>,
      <<"d","e","b","u","n","k">>,
      <<"d","i","s","p","r","o","v","e">>,
      <<"i","n","c","o","r","r","e","c","t">>,
      <<"i","n","v","a","l","i","d">>,
      <<"m","i","s","l","e","a","d","i","n","g">> >>

\* _rule_based_verify_claim: false_indicators (llm.py 227)
false_indicators ==
    <<
      <<"n","e","v","e","r"," ","h","a","p","p","e","n","e","d">>,
      <<"f","a","k","e">>,
      <<"h","o","a","x">>,
      <<"c","o","n","s","p","i","r","a","c","y">>,
      <<"f","a","l","s","e">>,
      <<"n","o","t"," ","t","r","u","e">>,
      <<"d","e","b","u","n","k","e","d">> >>

\* _rule_based_verify_claim: true_indicators (llm.py 228)
true_indicators ==
    <<
      <<"c","o","n","f","i","r","m","e","d">>,
      <<"v","e","r","i","f","i","e","d">>,
      <<"p","r","o","v","e","n">>,
      <<"f","a","c","t">>,
      <<"t","r","u","e">>,
      <<"a","c","c","u","r","a","t","e">>,
      <<"e","s","t","a","b","l","i","s","h","e","d">> >>

\* _rule_based_verify_claim: misleading_indicators (llm.py 229)
misleading_indicators ==
    <<
      <<"p","a","r","t","i","a","l","l","y">>,
      <<"s","o","m","e","w","h","a","t">>,
      <<"m","i","s","l","e","a","d","i","n","g">>,
      <<"o","u","t"," ","o","f"," ","c","o","n","t","e","x","t">>,
      <<"e","x","a","g","g","e","r","a","t","e","d">> >>

\* No evidence sources found to verify this claim. Web search and Knowledge Base retrieva ...
ExplNoEvidence ==
    <<"N","o"," ","e","v","i","d","e","n","c","e"," ","s","o","u","r","c","e","s"," ","f","o",
      "u","n","d"," ","t","o"," ","v","e","r","i","f","y"," ","t","h","i","s"," ","c","l","a",
      "i","m","."," ","W","e","b"," ","s","e","a","r","c","h"," ","a","n","d"," ","K","n","o",
      "w","l","e","d","g","e"," ","B","a","s","e"," ","r","e","t","r","i","e","v","a","l"," ",
      "r","e","t","u","r","n","e","d"," ","n","o"," ","r","e","s","u","l","t","s",".">>

\* Keyword analysis suggests this claim is false
ExplKeywordFalse ==
    <<"K","e","y","w","o","r","d"," ","a","n","a","l","y","s","i","s"," ","s","u","g","g","e",
      "s","t","s"," ","t","h","i","s"," ","c","l","a","i","m"," ","i","s"," ","f","a","l","s",
      "e">>

\* Keyword analysis suggests this claim is true
ExplKeywordTrue ==
    <<"K","e","y","w","o","r","d"," ","a","n","a","l","y","s","i","s"," ","s","u","g","g","e",
      "s","t","s"," ","t","h","i","s"," ","c","l","a","i","m"," ","i","s"," ","t","r","u","e">>

\* This claim may be misleading or require additional context
ExplMisleading ==
    <<"T","h","i","s"," ","c","l","a","i","m"," ","m","a","y"," ","b","e"," ","m","i","s","l",
      "e","a","d","i","n","g"," ","o","r"," ","r","e","q","u","i","r","e"," ","a","d","d","i",
      "t","i","o","n","a","l"," ","c","o","n","t","e","x","t">>

\* Insufficient evidence to determine veracity
ExplInsufficient ==
    <<"I","n","s","u","f","f","i","c","i","e","n","t"," ","e","v","i","d","e","n","c","e"," ",
      "t","o"," ","d","e","t","e","r","m","i","n","e"," ","v","e","r","a","c","i","t","y">>

\* \n\nRelevant evidence:
ExplRelevantEvidence ==
    <<"\n","\n","R","e","l","e","v","a","n","t"," ","e","v","i","d","e","n","c","e",":">>

\* Analyzed 
ExplAnalyzed ==
    <<"A","n","a","l","y","z","e","d"," ">>

\*  evidence source(s)
ExplEvidenceSources ==
    <<" ","e","v","i","d","e","n","c","e"," ","s","o","u","r","c","e","(","s",")">>

\* Evidence supports this claim (
ExplSupports ==
    <<"E","v","i","d","e","n","c","e"," ","s","u","p","p","o","r","t","s"," ","t","h","i","s",
      " ","c","l","a","i","m"," ","(">>

\*  supporting source(s))
ExplSupportingSources ==
    <<" ","s","u","p","p","o","r","t","i","n","g"," ","s","o","u","r","c","e","(","s",")",")">>

\* Evidence contradicts this claim (
ExplContradicts ==
    <<"E","v","i","d","e","n","c","e"," ","c","o","n","t","r","a","d","i","c","t","s"," ","t",
      "h","i","s"," ","c","l","a","i","m"," ","(">>

\*  contradicting source(s))
ExplContradictingSources ==
    <<" ","c","o","n","t","r","a","d","i","c","t","i","n","g"," ","s","o","u","r","c","e","(",
      "s",")",")">>

\*  web source(s)
ExplWebSources ==
    <<" ","w","e","b"," ","s","o","u","r","c","e","(","s",")">>

\*  knowledge base document(s)
ExplKbSources ==
    <<" ","k","n","o","w","l","e","d","g","e"," ","b","a","s","e"," ","d","o","c","u","m","e",
      "n","t","(","s",")">>

\* web
S_web ==
    <<"w","e","b">>

\* kb
S_kb ==
    <<"k","b">>

\* 10061
S_10061 ==
    <<"1","0","0","6","1">>

\* actively refused
S_actively_refused ==
    <<"a","c","t","i","v","e","l","y"," ","r","e","f","u","s","e","d">>

----------------------------------------------------------------------------
\* app/services/llm.py: LLMService

\* An evidence item is a dict of str: keys holds the keys present, the other
\* fields the values of title, url, snippet, text and type (the empty text
\* where the key is absent).  The key "source" is never read by LLMService.

\* ev.get(key, default)
EvGet(ev, key, default) == IF key \in ev.keys THEN ev[key] ELSE default

\* x or y, for two str
StrOr(x, y) == IF Len(x) > 0 THEN x ELSE y

\* xs[:k]
Prefix(xs, k) == SubSeq(xs, 1, IF Len(xs) < k THEN Len(xs) ELSE k)

\* evidence[:5] in verify_claim and in _rule_based_verify_claim
TopEvidence == 5

\* snippet[:150] in _rule_based_verify_claim
SnippetLimit == 150

\* at most 2 snippets are quoted in the explanation
MaxSnippets == 2

\* LLMService._format_json_prompt
format_json_prompt(p) == p \o JsonPromptSuffix

\* verify_claim: evidence_text, one block per item of evidence[:5]
EvidenceText(ev) ==
    LET top == Prefix(ev, TopEvidence)
    IN  Join(<<"\n">>,
             [idx \in 1..Len(top) |->
                 S_Source \o IntToStr(idx) \o <<":", " ">>
                 \o EvGet(top[idx], "title", S_Unknown) \o <<"\n">>
                 \o EvGet(top[idx], "snippet", EvGet(top[idx], "text", << >>)) \o <<"\n">>])

\* verify_claim: the prompt handed to generate
VerifyPrompt(c, ev) ==
    VerifyPromptHead \o c \o VerifyPromptEvidence \o EvidenceText(ev) \o VerifyPromptTail

\* a dict {"verdict", "confidence", "explanation", "citations"} in the order
\* the code writes its keys
ResultDict(verdict, confidence, explanation, citations) ==
    JDict(<<[k |-> K_verdict, v |-> verdict],
            [k |-> K_confidence, v |-> confidence],
            [k |-> K_explanation, v |-> explanation],
            [k |-> K_citations, v |-> citations]>>)

\* a _rule_based_fallback whose default verdict is "unknown"
FallbackVerdictUnknown(false_count, true_count, misleading_count) ==
    IF false_count > true_count /\ false_count > 0
    THEN [verdict |-> V_false, confidence |-> Frac(6, 10), explanation |-> FallbackExplFalse]
    ELSE IF true_count > false_count /\ true_count > 0
    THEN [verdict |-> V_true, confidence |-> Frac(6, 10), explanation |-> FallbackExplTrue]
    ELSE IF misleading_count > 0
    THEN [verdict |-> V_misleading, confidence |-> Frac(55, 100),
          explanation |-> FallbackExplMisleading]
    ELSE [verdict |-> S_Unknown, confidence |-> Frac(5, 10),
          explanation |-> FallbackExplUnverified]

\* _rule_based_fallback: verdict, confidence and explanation from the counts
FallbackVerdict(false_count, true_count, misleading_count) ==
    IF false_count > true_count /\ false_count > 0
    THEN [verdict |-> V_false, confidence |-> Frac(6, 10), explanation |-> FallbackExplFalse]
    ELSE IF true_count > false_count /\ true_count > 0
    THEN [verdict |-> V_true, confidence |-> Frac(6, 10), explanation |-> FallbackExplTrue]
    ELSE IF misleading_count > 0
    THEN [verdict |-> V_misleading, confidence |-> Frac(55, 100),
          explanation |-> FallbackExplMisleading]
    ELSE [verdict |-> V_unverified, confidence |-> Frac(5, 10),
          explanation |-> FallbackExplUnverified]

\* _rule_based_fallback: the keyword decision on the lower-cased prompt
FallbackDecision(p) ==
    Bind(Lower(p), LAMBDA claim_lower :
        Bind(<<CountIn(fallback_false_indicators, claim_lower),
               CountIn(fallback_true_indicators, claim_lower),
               CountIn(fallback_misleading_indicators, claim_lower)>>,
             LAMBDA n : FallbackVerdict(n[1], n[2], n[3])))

\* LLMService._rule_based_fallback: the decision as JSON text
rule_based_fallback(p) ==
    Bind(FallbackDecision(p), LAMBDA r :
        Dumps(ResultDict(JStr(r.verdict), JFloat(r.confidence), JStr(r.explanation),
                         JList(<< >>))))

\* _rule_based_verify_claim: claim_keywords
ClaimKeywords(claim_lower) == SelectSeq(Split(claim_lower), LAMBDA w : Len(w) > 4)

\* _rule_based_verify_claim: snippet = ev.get("snippet", "") or ev.get("text", "")
SnippetOf(ev) == StrOr(EvGet(ev, "snippet", << >>), EvGet(ev, "text", << >>))

\* _rule_based_verify_claim: one pass of the loop, for an item whose snippet
\* mentions a claim keyword; acc = [supporting, contradicting, snippets]
CountRelevant(acc, snippet, snippet_lower) ==
    Bind(IF Len(acc.snippets) < MaxSnippets
         THEN Append(acc.snippets,
                     IF Len(snippet) > SnippetLimit
                     THEN SubSeq(snippet, 1, SnippetLimit) \o <<".", ".", ".">>
                     ELSE snippet)
         ELSE acc.snippets,
         LAMBDA snippets :
             IF AnyIn(supporting_words, snippet_lower)
             THEN [supporting |-> FAdd(acc.supporting, FInt(1)),
                   contradicting |-> acc.contradicting, snippets |-> snippets]
             ELSE IF AnyIn(contradicting_words, snippet_lower)
             THEN [supporting |-> acc.supporting,
                   contradicting |-> FAdd(acc.contradicting, FInt(1)),
                   snippets |-> snippets]
             ELSE [supporting |-> FAdd(acc.supporting, Frac(1, 2)),
                   contradicting |-> acc.contradicting, snippets |-> snippets])

\* _rule_based_verify_claim: the loop over the evidence, from item i on
RECURSIVE AnalyzeEvidence(_, _, _, _)
AnalyzeEvidence(ev, i, claim_keywords, acc) ==
    IF i > Len(ev) THEN acc
    ELSE Bind(SnippetOf(ev[i]), LAMBDA snippet :
             Bind(Lower(snippet), LAMBDA snippet_lower :
                 Bind(IF AnyIn(claim_keywords, snippet_lower)
                      THEN CountRelevant(acc, snippet, snippet_lower) ELSE acc,
                      LAMBDA next : AnalyzeEvidence(ev, i + 1, claim_keywords, next))))

\* sum(1 for e in evidence if e.get("type") == kind)
CountType(ev, kind) ==
    Cardinality({i \in 1..Len(ev) : "type" \in ev[i].keys /\ ev[i].type = kind})

\* int(x) for a float x >= 0
FloatToInt(x) == x.n \div x.d

\* _rule_based_verify_claim: citations, from evidence[:5]
RECURSIVE Citations(_)
Citations(top0) ==
    Bind(top0, LAMBDA top :
        IF Len(top) = 0 THEN << >>
        ELSE Bind2(EvGet(top[1], "url", << >>), EvGet(top[1], "title", << >>),
                   LAMBDA url, title :
                       (IF Len(url) > 0 THEN <<JStr(url)>>
                        ELSE IF Len(title) > 0 THEN <<JStr(title)>> ELSE << >>)
                       \o Citations(Tail(top))))

\* a confidence that weighs the number of items above their weight
EvidenceConfidenceByCount(weight, evidence_count) ==
    FMin(Frac(75, 100),
         FAdd(FAdd(Frac(5, 10), FMul(weight, Frac(5, 100))),
              FMul(FInt(evidence_count), Frac(1, 10))))

\* min(0.75, 0.5 + weight * 0.1 + evidence_count * 0.05)
EvidenceConfidence(weight, evidence_count) ==
    FMin(Frac(75, 100),
         FAdd(FAdd(Frac(5, 10), FMul(weight, Frac(1, 10))),
              FMul(FInt(evidence_count), Frac(5, 100))))

\* min(cap, base + evidence_count * step)
KeywordConfidence(cap, base, step, evidence_count) ==
    FMin(cap, FAdd(base, FMul(FInt(evidence_count), step)))

\* _rule_based_verify_claim: verdict, confidence and the reasoning sentence
\* when there is evidence (llm.py 253-276); a is the outcome of the loop
EvidenceVerdict(a, false_count, true_count, misleading_count, evidence_count) ==
    IF FLt(a.contradicting, a.supporting) /\ FLt(FInt(0), a.supporting)
    THEN [verdict |-> V_true,
          confidence |-> EvidenceConfidence(a.supporting, evidence_count),
          part |-> ExplSupports \o IntToStr(FloatToInt(a.supporting))
                   \o ExplSupportingSources,
          snippets |-> a.snippets]
    ELSE IF FLt(a.supporting, a.contradicting) /\ FLt(FInt(0), a.contradicting)
    THEN [verdict |-> V_false,
          confidence |-> EvidenceConfidence(a.contradicting, evidence_count),
          part |-> ExplContradicts \o IntToStr(FloatToInt(a.contradicting))
                   \o ExplContradictingSources,
          snippets |-> a.snippets]
    ELSE IF false_count > true_count /\ false_count > 0
    THEN [verdict |-> V_false,
          confidence |-> KeywordConfidence(Frac(7, 10), Frac(4, 10), Frac(1, 10),
                                           evidence_count),
          part |-> ExplKeywordFalse, snippets |-> a.snippets]
    ELSE IF true_count > false_count /\ true_count > 0
    THEN [verdict |-> V_true,
          confidence |-> KeywordConfidence(Frac(7, 10), Frac(4, 10), Frac(1, 10),
                                           evidence_count),
          part |-> ExplKeywordTrue, snippets |-> a.snippets]
    ELSE IF misleading_count > 0
    THEN [verdict |-> V_misleading,
          confidence |-> KeywordConfidence(Frac(65, 100), Frac(35, 100), Frac(1, 10),
                                           evidence_count),
          part |-> ExplMisleading, snippets |-> a.snippets]
    ELSE [verdict |-> V_unverified,
          confidence |-> KeywordConfidence(Frac(6, 10), Frac(3, 10), Frac(5, 100),
                                           evidence_count),
          part |-> ExplInsufficient, snippets |-> a.snippets]

\* _rule_based_verify_claim: the analysis of claim and evidence (llm.py 196-233)
EvidenceDecision(c, ev) ==
    Bind(Lower(c), LAMBDA claim_lower :
        Bind(<<AnalyzeEvidence(ev, 1, ClaimKeywords(claim_lower),
                               [supporting |-> FInt(0), contradicting |-> FInt(0),
                                snippets |-> << >>]),
               CountIn(false_indicators, claim_lower),
               CountIn(true_indicators, claim_lower),
               CountIn(misleading_indicators, claim_lower)>>,
             LAMBDA x : EvidenceVerdict(x[1], x[2], x[3], x[4], Len(ev))))

\* _rule_based_verify_claim: explanation = ". ".join(explanation_parts)
EvidenceExplanation(ev, d) ==
    LET web_sources == CountType(ev, S_web)
        kb_sources == CountType(ev, S_kb)
        counts == <<ExplAnalyzed \o IntToStr(Len(ev)) \o ExplEvidenceSources>>
                  \o (IF web_sources > 0
                      THEN <<IntToStr(web_sources) \o ExplWebSources>> ELSE << >>)
                  \o (IF kb_sources > 0
                      THEN <<IntToStr(kb_sources) \o ExplKbSources>> ELSE << >>)
        quotes == IF Len(d.snippets) = 0 THEN << >>
                  ELSE <<ExplRelevantEvidence>>
                       \o [idx \in 1..Len(d.snippets) |->
                              IntToStr(idx) \o <<".", " ">> \o d.snippets[idx]]
    IN  Join(<<".", " ">>, counts \o <<d.part>> \o quotes)

\* a verifier that decides by the keywords of the claim when it has no evidence
RuleBasedByKeywords(c, ev) ==
    Bind(EvidenceDecision(c, ev), LAMBDA d :
        ResultDict(JStr(d.verdict), JFloat(d.confidence),
                   JStr(EvidenceExplanation(ev, d)),
                   JList(Citations(Prefix(ev, TopEvidence)))))

\* LLMService._rule_based_verify_claim
rule_based_verify_claim(c, ev) ==
    IF Len(ev) = 0
    THEN ResultDict(JStr(V_unverified), JFloat(Frac(2, 10)), JStr(ExplNoEvidence),
                    JList(Citations(Prefix(ev, TopEvidence))))
    ELSE Bind(EvidenceDecision(c, ev), LAMBDA d :
             ResultDict(JStr(d.verdict), JFloat(d.confidence),
                        JStr(EvidenceExplanation(ev, d)),
                        JList(Citations(Prefix(ev, TopEvidence)))))

\* float(text) for a str: decimal literals are read; anything else is a ValueError
StrToFloat(t) ==
    IF Len(t) = 0 \/ ~(t[1] = "-" \/ IsDigit(t[1])) THEN [exc |-> "ValueError", x |-> FInt(0)]
    ELSE Bind(ParseNumber(t, 1), LAMBDA r :
             IF r.ok /\ r.next = Len(t) + 1
             THEN [exc |-> "none", x |-> r.v.n]
             ELSE [exc |-> "ValueError", x |-> FInt(0)])

\* float(x): [exc, x]
PyFloat(v) ==
    CASE v.t \in {"int", "float", "bool"} -> [exc |-> "none", x |-> v.n]
      [] v.t = "str" -> Bind(Strip(v.s), LAMBDA t : StrToFloat(t))
      [] OTHER -> [exc |-> "TypeError", x |-> FInt(0)]

\* verify_claim: response_clean, the text from the first "{" to the last "}"
\* of the stripped response, or the stripped response when it has no such pair
CleanResponse(text) ==
    Bind(Strip(text), LAMBDA stripped :
        Bind(<<Find(stripped, "{"), RFind(stripped, "}")>>, LAMBDA at :
            IF at[1] > 0 /\ at[2] > 0 THEN SubSeq(stripped, at[1], at[2]) ELSE stripped))

\* verify_claim: the dict built from the parsed answer (llm.py 402-407): [exc, value]
CoerceResult(parsed) ==
    Bind(PyFloat(DictGet(parsed, K_confidence, JFloat(Frac(5, 10)))), LAMBDA f :
        IF f.exc # "none" THEN [exc |-> f.exc, value |-> JNull]
        ELSE [exc |-> "none",
              value |-> ResultDict(DictGet(parsed, K_verdict, JStr(V_unverified)),
                                   JFloat(f.x),
                                   DictGet(parsed, K_explanation, JStr(<< >>)),
                                   DictGet(parsed, K_citations, JList(<< >>)))])

\* verify_claim, the body of its try block after generate has returned
\* (llm.py 392-407): [exc, value], exc = "none" when the block returns value
ParseResponse(resp) ==
    IF resp.t # "str" THEN [exc |-> "AttributeError", value |-> JNull]
    ELSE Bind(Loads(CleanResponse(resp.s)), LAMBDA loaded :
             IF ~loaded.ok THEN [exc |-> "JSONDecodeError", value |-> JNull]
             ELSE IF loaded.v.t # "dict" THEN [exc |-> "AttributeError", value |-> JNull]
             ELSE Bind(loaded.v, LAMBDA parsed : CoerceResult(parsed)))

\* verify_claim's handlers: except json.JSONDecodeError and except Exception
\* both return the rule-based result; every exception the try block can raise
\* is an Exception
ExceptionClasses == {"JSONDecodeError", "AttributeError", "ValueError", "TypeError"}

\* a verify_claim whose handlers catch json.JSONDecodeError only
HandledJsonOnly(exc) == exc = "JSONDecodeError"

\* verify_claim's handlers: except json.JSONDecodeError, then except Exception
Handled(exc) == exc = "JSONDecodeError" \/ exc \in ExceptionClasses

\* generate: the test that keeps a connection-refused failure out of the log
IsRefused(msg) == Contains(msg, S_10061) \/ Contains(Lower(msg), S_actively_refused)

----------------------------------------------------------------------------
\* String literals of app/services/claim_extractor.py

\* extract_with_llm's prompt (claim_extractor.py 158-173): the text before
\* {context}, between {context} and {text}, and after {text}

\* Extract all factual claims from the following text. Return a JSON array of claims.\n\n
ExtractPromptHead ==
    <<"E","x","t","r","a","c","t"," ","a","l","l"," ","f","a","c","t","u","a","l"," ","c","l",
      "a","i","m","s"," ","f","r","o","m"," ","t","h","e"," ","f","o","l","l","o","w","i","n",
      "g"," ","t","e","x","t","."," ","R","e","t","u","r","n"," ","a"," ","J","S","O","N"," ",
      "a","r","r","a","y"," ","o","f"," ","c","l","a","i","m","s",".","\n","\n">>

\* \n\nText to Analyze:\n
ExtractPromptText ==
    <<"\n","\n","T","e","x","t"," ","t","o"," ","A","n","a","l","y","z","e",":","\n">>

\* \n\nReturn format:\n[\n  {"id": 1, "claim": "claim text here"},\n  {"id": 2, "claim":  ...
ExtractPromptTail ==
    <<"\n","\n","R","e","t","u","r","n"," ","f","o","r","m","a","t",":","\n","[","\n"," "," ",
      "{","\"","i","d","\"",":"," ","1",","," ","\"","c","l","a","i","m","\"",":"," ","\"","c",
      "l","a","i","m"," ","t","e","x","t"," ","h","e","r","e","\"","}",",","\n"," "," ","{",
      "\"","i","d","\"",":"," ","2",","," ","\"","c","l","a","i","m","\"",":"," ","\"","a","n",
      "o","t","h","e","r"," ","c","l","a","i","m","\"","}","\n","]","\n","\n","O","n","l","y",
      " ","e","x","t","r","a","c","t"," ","f","a","c","t","u","a","l",","," ","v","e","r","i",
      "f","i","a","b","l","e"," ","c","l","a","i","m","s","."," ","I","g","n","o","r","e"," ",
      "q","u","e","s","t","i","o","n","s",","," ","o","p","i","n","i","o","n","s",","," ","a",
      "n","d"," ","s","t","a","t","e","m","e","n","t","s"," ","w","i","t","h","o","u","t"," ",
      "f","a","c","t","u","a","l"," ","c","o","n","t","e","n","t",".","\n","U","s","e"," ","t",
      "h","e"," ","k","n","o","w","l","e","d","g","e"," ","b","a","s","e"," ","c","o","n","t",
      "e","x","t"," ","a","b","o","v","e"," ","t","o"," ","b","e","t","t","e","r"," ","u","n",
      "d","e","r","s","t","a","n","d"," ","d","o","m","a","i","n","-","s","p","e","c","i","f",
      "i","c"," ","t","e","r","m","s"," ","a","n","d"," ","c","o","n","c","e","p","t","s",".",
      "\n","J","S","O","N",":">>

\* \n\nRelevant Knowledge Base Context:\n
ContextHead ==
    <<"\n","\n","R","e","l","e","v","a","n","t"," ","K","n","o","w","l","e","d","g","e"," ","B",
      "a","s","e"," ","C","o","n","t","e","x","t",":","\n">>

\* . 
ContextItemSep ==
    <<"."," ">>

\* ...\n
ContextItemEnd ==
    <<".",".",".","\n">>

\*    Source: 
ContextSource ==
    <<" "," "," ","S","o","u","r","c","e",":"," ">>

\* claim
K_claim ==
    <<"c","l","a","i","m">>

\* extract_with_spacy: skip_patterns (claim_extractor.py 92-100)
skip_patterns ==
    <<
      <<"a","c","c","o","r","d","i","n","g"," ","t","o">>,
      <<"a","s"," ","r","e","p","o","r","t","e","d"," ","b","y">>,
      <<"s","o","u","r","c","e","s"," ","s","a","y">>,
      <<"i","t"," ","i","s"," ","s","a","i","d">>,
      <<"s","o","m","e"," ","b","e","l","i","e","v","e">>,
      <<"m","a","n","y"," ","t","h","i","n","k">>,
      <<"p","e","o","p","l","e"," ","s","a","y">> >>

\* extract_with_spacy: claim_indicators (claim_extractor.py 106-110)
claim_indicators ==
    <<
      <<"i","s">>,
      <<"a","r","e">>,
      <<"w","a","s">>,
      <<"w","e","r","e">>,
      <<"w","i","l","l"," ","b","e">>,
      <<"h","a","s"," ","b","e","e","n">>,
      <<"h","a","v","e"," ","b","e","e","n">>,
      <<"c","a","u","s","e","s">>,
      <<"c","a","u","s","e","d">>,
      <<"l","e","a","d","s"," ","t","o">>,
      <<"r","e","s","u","l","t","s"," ","i","n">>,
      <<"m","e","a","n","s">>,
      <<"c","o","n","t","a","i","n","s">>,
      <<"i","n","c","l","u","d","e","s">>,
      <<"c","o","n","s","i","s","t","s"," ","o","f">>,
      <<"c","o","m","p","r","i","s","e","s">> >>

\* _extract_simple: the keywords of a claim (claim_extractor.py 224)
simple_keywords ==
    <<
      <<"i","s">>,
      <<"a","r","e">>,
      <<"w","a","s">>,
      <<"w","e","r","e">>,
      <<"w","i","l","l">>,
      <<"c","a","n">>,
      <<"h","a","s">>,
      <<"h","a","v","e">> >>

----------------------------------------------------------------------------
\* The inputs of ClaimExtractor.extract the model explores: texts, a knowledge
\* base document, and the answers of the backend to the extraction prompt

\* 
Text_empty ==
<< >>

\* Too short
Text_short ==
    <<"T","o","o"," ","s","h","o","r","t">>

\*    Too short    
Text_padded ==
    <<" "," "," ","T","o","o"," ","s","h","o","r","t"," "," "," "," ">>

\* Ice is wet
Text_ten ==
    <<"I","c","e"," ","i","s"," ","w","e","t">>

\* Water is wet and cold today. WATER IS WET AND COLD TODAY.
Text_dup ==
    <<"W","a","t","e","r"," ","i","s"," ","w","e","t"," ","a","n","d"," ","c","o","l","d"," ",
      "t","o","d","a","y","."," ","W","A","T","E","R"," ","I","S"," ","W","E","T"," ","A","N",
      "D"," ","C","O","L","D"," ","T","O","D","A","Y",".">>

\* The sun rose over the hills. Water is wet and cold today!
Text_mix ==
    <<"T","h","e"," ","s","u","n"," ","r","o","s","e"," ","o","v","e","r"," ","t","h","e"," ",
      "h","i","l","l","s","."," ","W","a","t","e","r"," ","i","s"," ","w","e","t"," ","a","n",
      "d"," ","c","o","l","d"," ","t","o","d","a","y","!">>

\* Water is wet and cold today. We know water is wet and cold today.
Text_nested ==
    <<"W","a","t","e","r"," ","i","s"," ","w","e","t"," ","a","n","d"," ","c","o","l","d"," ",
      "t","o","d","a","y","."," ","W","e"," ","k","n","o","w"," ","w","a","t","e","r"," ","i",
      "s"," ","w","e","t"," ","a","n","d"," ","c","o","l","d"," ","t","o","d","a","y",".">>

\* Water is a liquid at room temperature.
Rag_text ==
    <<"W","a","t","e","r"," ","i","s"," ","a"," ","l","i","q","u","i","d"," ","a","t"," ","r",
      "o","o","m"," ","t","e","m","p","e","r","a","t","u","r","e",".">>

\* Chemistry notes
Rag_title ==
    <<"C","h","e","m","i","s","t","r","y"," ","n","o","t","e","s">>

\* [{"id": 1, "claim": "Ice is cold"}, {"id": 2, "claim": "ice is cold "}, {"id": 3, "cla ...
Resp_claims ==
    <<"[","{","\"","i","d","\"",":"," ","1",","," ","\"","c","l","a","i","m","\"",":"," ","\"",
      "I","c","e"," ","i","s"," ","c","o","l","d","\"","}",","," ","{","\"","i","d","\"",":",
      " ","2",","," ","\"","c","l","a","i","m","\"",":"," ","\"","i","c","e"," ","i","s"," ",
      "c","o","l","d"," ","\"","}",","," ","{","\"","i","d","\"",":"," ","3",","," ","\"","c",
      "l","a","i","m","\"",":"," ","\"","W","a","t","e","r"," ","i","s"," ","w","e","t"," ","a",
      "n","d"," ","c","o","l","d","\"","}","]">>

\* Here are the claims:\n[{"id": 1, "claim": "The sun rose over the hills."}, {"id": 2, " ...
Resp_fenced ==
    <<"H","e","r","e"," ","a","r","e"," ","t","h","e"," ","c","l","a","i","m","s",":","\n","[",
      "{","\"","i","d","\"",":"," ","1",","," ","\"","c","l","a","i","m","\"",":"," ","\"","T",
      "h","e"," ","s","u","n"," ","r","o","s","e"," ","o","v","e","r"," ","t","h","e"," ","h",
      "i","l","l","s",".","\"","}",","," ","{","\"","i","d","\"",":"," ","2",","," ","\"","c",
      "l","a","i","m","\"",":"," ","\"","R","a","i","n"," ","i","s"," ","w","e","t","\"","}",
      "]","\n","D","o","n","e",".">>

\* {"claim": "Ice melts in the sun"}
Resp_one ==
    <<"{","\"","c","l","a","i","m","\"",":"," ","\"","I","c","e"," ","m","e","l","t","s"," ",
      "i","n"," ","t","h","e"," ","s","u","n","\"","}">>

----------------------------------------------------------------------------
\* app/services/claim_extractor.py: ClaimExtractor

\* A claim of a strategy or of extract: [id, claim, confidence, method];
\* method is "none" where the dict has no such key.
Claim(id, text, confidence, method) ==
    [id |-> id, claim |-> text, confidence |-> confidence, method |-> method]

\* extract: text too short to hold a claim (`not text or len(text.strip()) < 10`)
MinTextLen == 10

\* extract_with_spacy: a sentence shorter than this is skipped
MinSentenceLen == 15

\* _extract_simple: a sentence must be longer than this
MinSimpleLen == 20

\* extract: two texts can be similar only if both are longer than this
MinSimilarLen == 20

\* extract_with_llm: result['text'][:200]
ContextTextLimit == 200

\* a guard that measures the text as it came, blanks included
TooShortUntrimmed(text) == Len(text) < MinTextLen

\* extract: the guard `not text or len(text.strip()) < 10`
TooShort(text) == Len(text) = 0 \/ Len(Strip(text)) < MinTextLen

\* the characters that end a sentence, [.!?]
Terminators == {".", "!", "?"}

\* the start of the next piece after the run of terminators that starts at i
RECURSIVE AfterTerminators(_, _)
AfterTerminators(s, i) ==
    Bind(i, LAMBDA a :
        IF a <= Len(s) /\ s[a] \in Terminators THEN AfterTerminators(s, a + 1) ELSE a)

\* re.split(r'[.!?]+', text) from position i on: the pieces between the runs
\* of terminators, an empty piece after a final run included
RECURSIVE ReSplitFrom(_, _)
ReSplitFrom(s, i) ==
    Bind2(s, i, LAMBDA x, a :
        Bind(RunEnd(x, a, Terminators), LAMBDA e :
            IF e = Len(x) THEN <<SubSeq(x, a, e)>>
            ELSE <<SubSeq(x, a, e)>> \o ReSplitFrom(x, AfterTerminators(x, e + 1))))

\* _extract_simple: whether a stripped sentence is kept as a claim
IsSimpleClaim(sentence) ==
    Len(sentence) > MinSimpleLen /\ AnyIn(simple_keywords, Lower(sentence))

\* ClaimExtractor._extract_simple: ids are idx + 1 of the kept sentences' pieces
extract_simple(text) ==
    Bind(ReSplitFrom(text, 1), LAMBDA sentences :
        Bind([idx \in 1..Len(sentences) |-> Strip(sentences[idx])], LAMBDA stripped :
            Bind(SelectSeq([idx \in 1..Len(stripped) |-> idx],
                           LAMBDA idx : IsSimpleClaim(stripped[idx])),
                 LAMBDA kept :
                     [k \in 1..Len(kept) |->
                         Claim(kept[k], stripped[kept[k]], Frac(6, 10), "none")])))

\* s.endswith(c) for a one-character c
EndsWith(s, c) == Len(s) > 0 /\ s[Len(s)] = c

\* extract_with_spacy: the confidence of a sentence (claim_extractor.py 112-115)
SpacyConfidence(sent_lower) ==
    IF AnyIn(claim_indicators, sent_lower) THEN Frac(8, 10) ELSE Frac(7, 10)

\* extract_with_spacy: whether a sentence of the parse is kept as a claim;
\* sent = [text, root_verb, subject], the last two what the parser found
IsSpacyClaim(sent) ==
    Bind(Strip(sent.text), LAMBDA sent_text :
        /\ Len(sent_text) >= MinSentenceLen
        /\ ~EndsWith(sent_text, "?")
        /\ sent.root_verb
        /\ ~AnyIn(skip_patterns, Lower(sent_text))
        /\ sent.subject)

\* extract_with_spacy: the loop over doc.sents from sentence i on
RECURSIVE SpacyClaimsFrom(_, _, _)
SpacyClaimsFrom(sents, i, claims) ==
    Bind2(i, claims, LAMBDA a, acc :
        IF a > Len(sents) THEN acc
        ELSE IF IsSpacyClaim(sents[a])
        THEN Bind(Strip(sents[a].text), LAMBDA sent_text :
                 SpacyClaimsFrom(sents, a + 1,
                     Append(acc, Claim(Len(acc) + 1, sent_text,
                                       SpacyConfidence(Lower(sent_text)), "none"))))
        ELSE SpacyClaimsFrom(sents, a + 1, acc))

\* ClaimExtractor.extract_with_spacy; parse = [kind, sents], kind "no_model"
\* when self.nlp is None
extract_with_spacy(parse) ==
    IF parse.kind = "no_model" THEN << >> ELSE SpacyClaimsFrom(parse.sents, 1, << >>)

\* extract_with_llm: the context built from the retriever's results; a result
\* is [text, has_title, title]
ContextItems(results) ==
    Join(<< >>,
         [idx \in 1..Len(results) |->
             IntToStr(idx) \o ContextItemSep
             \o Prefix(results[idx].text, ContextTextLimit) \o ContextItemEnd
             \o (IF results[idx].has_title /\ Len(results[idx].title) > 0
                 THEN ContextSource \o results[idx].title \o <<"\n">> ELSE << >>)])

\* extract_with_llm: context; rag = [retriever, raises, results]
Context(rag) ==
    IF rag.retriever /\ ~rag.raises /\ Len(rag.results) > 0
    THEN ContextHead \o ContextItems(rag.results)
    ELSE << >>

\* extract_with_llm: the prompt handed to generate
ExtractPrompt(context, text) ==
    ExtractPromptHead \o context \o ExtractPromptText \o text \o ExtractPromptTail

\* extract_with_llm: `active_rag_retriever and context`
UsedRag(rag) == rag.retriever /\ Len(Context(rag)) > 0

\* extract_with_llm: base_confidence
BaseConfidence(rag) == IF UsedRag(rag) THEN Frac(85, 100) ELSE Frac(8, 10)

\* extract_with_llm: method
LlmMethod(rag) == IF UsedRag(rag) THEN "llm_rag" ELSE "llm"

\* extract_with_llm: response_clean, the [ ... ] span of a text with braces
CleanClaimsResponse(text) ==
    Bind(Strip(text), LAMBDA response_clean :
        IF Contains(response_clean, <<"{">>) /\ Contains(response_clean, <<"}">>)
        THEN Bind2(Find(response_clean, "["), RFind(response_clean, "]"),
                   LAMBDA start, end :
                       IF start >= 1 /\ end >= start
                       THEN SubSeq(response_clean, start, end) ELSE response_clean)
        ELSE response_clean)

\* extract_with_llm: claims_data made a list
AsClaimsData(v) ==
    IF v.t = "list" THEN v.items ELSE IF v.t = "dict" THEN <<v>> ELSE << >>

\* claim.get("claim", "").strip() can be evaluated: claim is a dict whose
\* "claim", if present, is a str
HasClaimText(v) == v.t = "dict" /\ DictGet(v, K_claim, JStr(<< >>)).t = "str"

\* extract_with_llm: the list comprehension over claims_data
LlmClaimsOf(claims_data, base_confidence, method) ==
    Bind(SelectSeq([idx \in 1..Len(claims_data) |-> idx],
                   LAMBDA idx : Len(Strip(DictGet(claims_data[idx], K_claim, JStr(<< >>)).s)) > 0),
         LAMBDA kept :
             [k \in 1..Len(kept) |->
                 Claim(kept[k], DictGet(claims_data[kept[k]], K_claim, JStr(<< >>)).s,
                       base_confidence, method)])

\* an extract_with_llm that takes an answer that is no JSON for a claim
extract_with_llm_prose(response, rag) ==
    IF response.t # "str" THEN << >>
    ELSE Bind(Loads(CleanClaimsResponse(response.s)), LAMBDA l :
        IF ~l.ok THEN <<Claim(1, response.s, BaseConfidence(rag), LlmMethod(rag))>>
        ELSE Bind(AsClaimsData(l.v), LAMBDA claims_data :
            IF \E i \in 1..Len(claims_data) : ~HasClaimText(claims_data[i]) THEN << >>
            ELSE LlmClaimsOf(claims_data, BaseConfidence(rag), LlmMethod(rag))))

\* ClaimExtractor.extract_with_llm after generate has returned response: any
\* exception (a response that is no str, no JSON, an item that is no dict, a
\* "claim" that is no str) makes it return []
extract_with_llm(response, rag) ==
    IF response.t # "str" THEN << >>
    ELSE Bind(Loads(CleanClaimsResponse(response.s)), LAMBDA l :
        IF ~l.ok THEN << >>
        ELSE Bind(AsClaimsData(l.v), LAMBDA claims_data :
            IF \E i \in 1..Len(claims_data) : ~HasClaimText(claims_data[i]) THEN << >>
            ELSE LlmClaimsOf(claims_data, BaseConfidence(rag), LlmMethod(rag))))

\* a deduplication that compares the texts as they are written
DedupKeyCaseSensitive(text) == Strip(text)

\* extract: claim_text = claim["claim"].strip().lower()
DedupKey(text) == Lower(Strip(text))

\* extract: the similarity test of the LLM and fallback loops
IsSimilar(claim_text, existing_text) ==
    /\ Contains(existing_text, claim_text) \/ Contains(claim_text, existing_text)
    /\ Len(claim_text) > MinSimilarLen
    /\ Len(existing_text) > MinSimilarLen

\* extract: is_duplicate after the loop over claim_texts
IsDuplicate(claim_text, claim_texts) ==
    \E existing_text \in claim_texts : IsSimilar(claim_text, existing_text)

\* extract: one claim of a strategy added to all_claims; st = [all_claims, claim_texts]
AddClaim(st, claim, method) ==
    [all_claims |-> Append(st.all_claims,
                           Claim(Len(st.all_claims) + 1, claim.claim, claim.confidence, method)),
     claim_texts |-> st.claim_texts \cup {DedupKey(claim.claim)}]

\* extract: the spaCy loop from claim i on (claim_extractor.py 252-262)
RECURSIVE FuseSpacy(_, _, _)
FuseSpacy(st0, claims, i) ==
    Bind2(st0, i, LAMBDA st, a :
        IF a > Len(claims) THEN st
        ELSE IF DedupKey(claims[a].claim) \notin st.claim_texts
        THEN FuseSpacy(AddClaim(st, claims[a], "spacy"), claims, a + 1)
        ELSE FuseSpacy(st, claims, a + 1))

\* extract: the method recorded for a claim of the LLM loop, claim.get("method", "llm")
MethodOr(claim, default) == IF claim.method = "none" THEN default ELSE claim.method

\* a fusion in which a candidate of higher confidence takes the place of the
\* accepted claim it duplicates
RECURSIVE FuseSimilarKeepsBest(_, _, _, _)
FuseSimilarKeepsBest(st0, claims, i, fallback) ==
    Bind2(st0, i, LAMBDA st, a :
        IF a > Len(claims) THEN st
        ELSE Bind2(DedupKey(claims[a].claim),
                   IF fallback THEN "fallback" ELSE MethodOr(claims[a], "llm"),
                   LAMBDA claim_text, method :
            IF ~IsDuplicate(claim_text, st.claim_texts) /\ claim_text \notin st.claim_texts
            THEN FuseSimilarKeepsBest(AddClaim(st, claims[a], method), claims, a + 1, fallback)
            ELSE FuseSimilarKeepsBest(
                     [st EXCEPT !.all_claims =
                         [k \in 1..Len(st.all_claims) |->
                             IF /\ DedupKey(st.all_claims[k].claim) = claim_text
                                /\ FLt(st.all_claims[k].confidence, claims[a].confidence)
                             THEN Claim(k, claims[a].claim, claims[a].confidence, method)
                             ELSE st.all_claims[k]]],
                     claims, a + 1, fallback)))

\* extract: the LLM loop and the fallback loop from claim i on
\* (claim_extractor.py 271-289 and 300-318); fallback tells which
RECURSIVE FuseSimilar(_, _, _, _)
FuseSimilar(st0, claims, i, fallback) ==
    Bind2(st0, i, LAMBDA st, a :
        IF a > Len(claims) THEN st
        ELSE Bind(DedupKey(claims[a].claim), LAMBDA claim_text :
            IF ~IsDuplicate(claim_text, st.claim_texts) /\ claim_text \notin st.claim_texts
            THEN FuseSimilar(AddClaim(st, claims[a],
                                      IF fallback THEN "fallback"
                                      ELSE MethodOr(claims[a], "llm")),
                             claims, a + 1, fallback)
            ELSE FuseSimilar(st, claims, a + 1, fallback)))

\* a sort that leaves the list as it is
Unsorted(claims) == claims

\* all_claims.sort(key=confidence, reverse=True): stable, highest first
RECURSIVE SortByConfidence(_)
SortByConfidence(claims) ==
    Bind(claims, LAMBDA xs :
        IF Len(xs) <= 1 THEN xs
        ELSE Bind2(SortByConfidence(SubSeq(xs, 1, Len(xs) - 1)), xs[Len(xs)],
                   LAMBDA sorted, x :
                       Bind(Cardinality({k \in 1..Len(sorted) :
                                            FLeq(x.confidence, sorted[k].confidence)}),
                            LAMBDA n :
                                SubSeq(sorted, 1, n) \o <<x>>
                                \o SubSeq(sorted, n + 1, Len(sorted)))))

\* extract: claim["id"] = idx for idx, claim in enumerate(all_claims, 1)
Renumber(claims) ==
    [idx \in 1..Len(claims) |->
        Claim(idx, claims[idx].claim, claims[idx].confidence, claims[idx].method)]

\* extract: the fallback strategy and its loop (claim_extractor.py 297-320)
AfterFallback(st, t) == FuseSimilar(st, extract_simple(t), 1, TRUE)

\* extract: the sort and the new ids (claim_extractor.py 322-327)
SortAndRenumber(claims) == Renumber(SortByConfidence(claims))

----------------------------------------------------------------------------
\* String literals of app/utils/scoring.py and app/services/autogen_service.py

\* normalize_verdict: true_variants (scoring.py 78)
true_variants ==
    <<
      <<"t","r","u","e">>,
      <<"c","o","r","r","e","c","t">>,
      <<"a","c","c","u","r","a","t","e">>,
      <<"v","e","r","i","f","i","e","d">>,
      <<"f","a","c","t","u","a","l">> >>

\* normalize_verdict: false_variants (scoring.py 79)
false_variants ==
    <<
      <<"f","a","l","s","e">>,
      <<"i","n","c","o","r","r","e","c","t">>,
      <<"i","n","a","c","c","u","r","a","t","e">>,
      <<"d","e","b","u","n","k","e","d">>,
      <<"d","i","s","p","r","o","v","e","n">> >>

\* normalize_verdict: misleading_variants (scoring.py 80)
misleading_variants ==
    <<
      <<"m","i","s","l","e","a","d","i","n","g">>,
      <<"p","a","r","t","i","a","l","l","y"," ","t","r","u","e">>,
      <<"p","a","r","t","i","a","l","l","y"," ","f","a","l","s","e">>,
      <<"m","i","x","e","d">>,
      <<"u","n","c","l","e","a","r">> >>

\* AutoGenService.aggregate_verdicts: the texts of the explanation
\* (autogen_service.py 89, 109-110)

\* No agent responses
ExplNoAgents ==
    <<"N","o"," ","a","g","e","n","t"," ","r","e","s","p","o","n","s","e","s">>

\* Agent 
ExplAgent ==
    <<"A","g","e","n","t"," ">>

\* : 
ExplAgentSep ==
    <<":"," ">>

\* \n\n
ExplAgentJoin ==
    <<"\n","\n">>

----------------------------------------------------------------------------
\* The verdict strings and explanations of the responses the model aggregates

\* False 
Raw_false ==
    <<"F","a","l","s","e"," ">>

\* unknown
Raw_unknown ==
    <<"u","n","k","n","o","w","n">>

\* ok
Expl_agent ==
    <<"o","k">>

----------------------------------------------------------------------------
\* app/utils/scoring.py and AutoGenService.aggregate_verdicts

\* a / k for a float a and a count k > 0
FDiv(a, k) == Bind2(a, k, LAMBDA x, y : Frac(x.n, x.d * y))

\* sum of the floats of a sequence
RECURSIVE FSum(_)
FSum(xs0) ==
    Bind(xs0, LAMBDA xs : IF Len(xs) = 0 THEN FInt(0) ELSE FAdd(xs[1], FSum(Tail(xs))))

\* normalize_verdict (scoring.py 65-89)
normalize_verdict(verdict) ==
    Bind(Strip(Lower(verdict)), LAMBDA verdict_lower :
        IF AnyIn(true_variants, verdict_lower) THEN V_true
        ELSE IF AnyIn(false_variants, verdict_lower) THEN V_false
        ELSE IF AnyIn(misleading_variants, verdict_lower) THEN V_misleading
        ELSE V_unverified)

\* a response or verdict dict: its keys, and the values of the keys it has
Response(keys, verdict, confidence, explanation) ==
    [keys |-> keys, verdict |-> verdict, confidence |-> confidence,
     explanation |-> explanation]

\* v.get("verdict", "unverified")
ItemVerdict(v) == IF "verdict" \in v.keys THEN v.verdict ELSE V_unverified

\* v.get("confidence", 0.0)
ItemConfidence(v) == IF "confidence" \in v.keys THEN v.confidence ELSE FInt(0)

\* r.get("explanation", "")
ItemExplanation(v) == IF "explanation" \in v.keys THEN v.explanation ELSE << >>

\* verdict_counts[verdict] = verdict_counts.get(verdict, 0) + 1, on a dict
\* written as the sequence of its items in insertion order
CountOne(verdict_counts, verdict) ==
    Bind2(verdict_counts, verdict, LAMBDA cs, v :
        IF \E k \in 1..Len(cs) : cs[k].key = v
        THEN [k \in 1..Len(cs) |->
                 IF cs[k].key = v THEN [key |-> v, n |-> cs[k].n + 1] ELSE cs[k]]
        ELSE Append(cs, [key |-> v, n |-> 1]))

\* the counting loop over the verdicts from position i on
RECURSIVE CountVerdicts(_, _, _)
CountVerdicts(vs, i, verdict_counts) ==
    IF i > Len(vs) THEN verdict_counts
    ELSE CountVerdicts(vs, i + 1, CountOne(verdict_counts, vs[i]))

\* max(verdict_counts.items(), key=lambda x: x[1])[0]: max keeps the first of
\* the items of the greatest count
MajorityVote(verdict_counts) ==
    Bind(verdict_counts, LAMBDA cs :
        cs[CHOOSE k \in 1..Len(cs) :
              /\ \A j \in 1..Len(cs) : cs[j].n <= cs[k].n
              /\ \A j \in 1..(k - 1) : cs[j].n < cs[k].n].key)

\* an aggregate_verdicts whose confidence is the mean over all responses
aggregate_verdicts_mean_of_all(verdicts) ==
    IF Len(verdicts) = 0
    THEN [keys |-> {"verdict", "confidence", "count"}, verdict |-> V_unverified,
          confidence |-> FInt(0), count |-> 0, distribution |-> << >>]
    ELSE Bind([i \in 1..Len(verdicts) |-> normalize_verdict(ItemVerdict(verdicts[i]))],
              LAMBDA normalized :
        Bind(CountVerdicts(normalized, 1, << >>), LAMBDA verdict_counts :
            [keys |-> {"verdict", "confidence", "count", "distribution"},
             verdict |-> MajorityVote(verdict_counts),
             confidence |->
                 FDiv(FSum([k \in 1..Len(verdicts) |-> ItemConfidence(verdicts[k])]),
                      Len(verdicts)),
             count |-> Len(verdicts),
             distribution |-> verdict_counts]))

\* aggregate_verdicts (scoring.py 92-135)
aggregate_verdicts(verdicts) ==
    IF Len(verdicts) = 0
    THEN [keys |-> {"verdict", "confidence", "count"}, verdict |-> V_unverified,
          confidence |-> FInt(0), count |-> 0, distribution |-> << >>]
    ELSE Bind([i \in 1..Len(verdicts) |-> normalize_verdict(ItemVerdict(verdicts[i]))],
              LAMBDA normalized :
        Bind(CountVerdicts(normalized, 1, << >>), LAMBDA verdict_counts :
            Bind(MajorityVote(verdict_counts), LAMBDA final_verdict :
                Bind(SelectSeq([i \in 1..Len(verdicts) |-> i],
                               LAMBDA i : normalized[i] = final_verdict),
                     LAMBDA matching :
                    [keys |-> {"verdict", "confidence", "count", "distribution"},
                     verdict |-> final_verdict,
                     confidence |->
                         IF Len(matching) > 0
                         THEN FDiv(FSum([k \in 1..Len(matching) |->
                                            ItemConfidence(verdicts[matching[k]])]),
                                   Len(matching))
                         ELSE FInt(0),
                     count |-> Len(verdicts),
                     distribution |-> verdict_counts]))))

\* AutoGenService.aggregate_verdicts (autogen_service.py 75-119)
autogen_aggregate_verdicts(agent_responses) ==
    IF Len(agent_responses) = 0
    THEN [keys |-> {"verdict", "confidence", "explanation"}, verdict |-> V_unverified,
          confidence |-> FInt(0), explanation |-> ExplNoAgents,
          agent_responses |-> << >>, verdict_distribution |-> << >>]
    ELSE Bind(CountVerdicts([i \in 1..Len(agent_responses) |->
                                ItemVerdict(agent_responses[i])], 1, << >>),
              LAMBDA verdict_counts :
        [keys |-> {"verdict", "confidence", "explanation", "agent_responses",
                   "verdict_distribution"},
         verdict |-> MajorityVote(verdict_counts),
         confidence |->
             FDiv(FSum([i \in 1..Len(agent_responses) |->
                           ItemConfidence(agent_responses[i])]),
                  Len(agent_responses)),
         explanation |->
             Join(ExplAgentJoin,
                  [idx \in 1..Len(agent_responses) |->
                      ExplAgent \o IntToStr(idx) \o ExplAgentSep
                      \o ItemExplanation(agent_responses[idx])]),
         agent_responses |-> agent_responses,
         verdict_distribution |-> verdict_counts])

----------------------------------------------------------------------------
\* String literals of app/services/credibility_analyzer.py

\* CredibilityAnalyzer: fact_check_domains (credibility_analyzer.py 16-19)
fact_check_domains ==
    {
     <<"c","h","e","c","k","y","o","u","r","f","a","c","t",".","c","o","m">>,
     <<"f","a","c","t","c","h","e","c","k",".","o","r","g">>,
     <<"f","u","l","l","f","a","c","t",".","o","r","g">>,
     <<"l","e","a","d","s","t","o","r","i","e","s",".","c","o","m">>,
     <<"p","o","l","i","t","i","f","a","c","t",".","c","o","m">>,
     <<"s","n","o","p","e","s",".","c","o","m">> }

\* CredibilityAnalyzer: unreliable_domains (credibility_analyzer.py 22-24)
unreliable_domains ==
    {
     <<"i","n","f","o","w","a","r","s",".","c","o","m">>,
     <<"n","a","t","u","r","a","l","n","e","w","s",".","c","o","m">> }

\* CredibilityAnalyzer: academic_domains (credibility_analyzer.py 27-29)
academic_domains ==
    {
     <<".","a","c",".","u","k">>,
     <<".","e","d","u">>,
     <<".","e","d","u",".","a","u">> }

\* www.
S_www ==
    <<"w","w","w",".">>

\* .edu
S_edu ==
    <<".","e","d","u">>

\* .gov
S_gov ==
    <<".","g","o","v">>

\* .org
S_org ==
    <<".","o","r","g">>

\* established
Age_established ==
    <<"e","s","t","a","b","l","i","s","h","e","d">>

\* likely_established
Age_likely ==
    <<"l","i","k","e","l","y","_","e","s","t","a","b","l","i","s","h","e","d">>

\* unknown
S_unknown ==
    <<"u","n","k","n","o","w","n">>

\* Invalid IPv6 URL
Err_ipv6 ==
    <<"I","n","v","a","l","i","d"," ","I","P","v","6"," ","U","R","L">>

\* a bytes-like object is required, not 'str'
Err_not_str ==
    <<"a"," ","b","y","t","e","s","-","l","i","k","e"," ","o","b","j","e","c","t"," ","i","s",
      " ","r","e","q","u","i","r","e","d",","," ","n","o","t"," ","'","s","t","r","'">>

----------------------------------------------------------------------------
\* The URLs the model analyzes

\* https://www.snopes.com/fact-check
Url_snopes ==
    <<"h","t","t","p","s",":","/","/","w","w","w",".","s","n","o","p","e","s",".","c","o","m",
      "/","f","a","c","t","-","c","h","e","c","k">>

\* http://infowars.com
Url_infowars ==
    <<"h","t","t","p",":","/","/","i","n","f","o","w","a","r","s",".","c","o","m">>

\* https://web.mit.edu/page?x=1
Url_mit ==
    <<"h","t","t","p","s",":","/","/","w","e","b",".","m","i","t",".","e","d","u","/","p","a",
      "g","e","?","x","=","1">>

\* https://example.org
Url_org ==
    <<"h","t","t","p","s",":","/","/","e","x","a","m","p","l","e",".","o","r","g">>

\* http://[bad
Url_bracket ==
    <<"h","t","t","p",":","/","/","[","b","a","d">>

\* HTTP://WWW.MIT.EDU#top
Url_caps ==
    <<"H","T","T","P",":","/","/","W","W","W",".","M","I","T",".","E","D","U","#","t","o","p">>

\* www.snopes.com/x
Url_bare ==
    <<"w","w","w",".","s","n","o","p","e","s",".","c","o","m","/","x">>

----------------------------------------------------------------------------
\* app/services/credibility_analyzer.py

\* s.endswith(suffix)
HasSuffix(s, suffix) ==
    Bind2(s, suffix, LAMBDA x, y :
        Len(y) <= Len(x) /\ SubSeq(x, Len(x) - Len(y) + 1, Len(x)) = y)

\* s.replace(old, ""): the occurrences of old are taken out from left to right
RECURSIVE Remove(_, _)
Remove(s, old) ==
    Bind2(s, old, LAMBDA x, y :
        IF Len(x) < Len(y) THEN x
        ELSE IF SubSeq(x, 1, Len(y)) = y THEN Remove(SubSeq(x, Len(y) + 1, Len(x)), y)
        ELSE <<x[1]>> \o Remove(Tail(x), y))

\* s.split(".")[-1]: what follows the last "."
AfterLastDot(s) ==
    Bind(s, LAMBDA x : SubSeq(x, RFind(x, ".") + 1, Len(x)))

\* the characters of a URL scheme after its first letter
SchemeChars ==
    {LowerChars[i] : i \in 1..Len(LowerChars)} \cup {UpperChars[i] : i \in 1..Len(UpperChars)}
    \cup {DigitChars[i] : i \in 1..Len(DigitChars)} \cup {"+", "-", "."}

\* urlsplit: the position after "scheme:" when the text starts with a scheme, else 1
AfterScheme(url) ==
    Bind2(url, Find(url, ":"), LAMBDA x, i :
        IF /\ i > 1
           /\ x[1] \in SchemeChars \ ({DigitChars[k] : k \in 1..Len(DigitChars)} \cup {"+", "-", "."})
           /\ \A k \in 1..(i - 1) : x[k] \in SchemeChars
        THEN i + 1 ELSE 1)

\* urlparse(url).netloc for a str: what stands between "//" after the scheme
\* and the next "/", "?" or "#"; a "[" without "]" or a "]" without "[" in
\* it is a ValueError. (A netloc with both brackets is read as it stands.)
urlparse(url) ==
    Bind2(url, AfterScheme(url), LAMBDA x, a :
        IF a + 1 <= Len(x) /\ x[a] = "/" /\ x[a + 1] = "/"
        THEN Bind(SubSeq(x, a + 2, RunEnd(x, a + 2, {"/", "?", "#"})), LAMBDA netloc :
                 IF Contains(netloc, <<"[">>) # Contains(netloc, <<"]">>)
                 THEN [ok |-> FALSE, netloc |-> << >>, error |-> Err_ipv6]
                 ELSE [ok |-> TRUE, netloc |-> netloc, error |-> << >>])
        ELSE [ok |-> TRUE, netloc |-> << >>, error |-> << >>])

\* CredibilityAnalyzer._estimate_domain_age
estimate_domain_age(domain) ==
    IF HasSuffix(domain, S_edu) \/ HasSuffix(domain, S_gov) THEN Age_established
    ELSE IF HasSuffix(domain, S_org) THEN Age_likely
    ELSE S_unknown

\* a trust score that is not clamped
TrustScoreUnclamped(metrics) ==
    FAdd(FAdd(FAdd(FAdd(Frac(5, 10),
                        IF metrics.is_fact_checker THEN Frac(3, 10) ELSE FInt(0)),
                   IF metrics.is_academic THEN Frac(2, 10) ELSE FInt(0)),
              IF metrics.is_unreliable THEN Frac(-4, 10) ELSE FInt(0)),
         IF metrics.domain_age = Age_established THEN Frac(1, 10) ELSE FInt(0))

\* CredibilityAnalyzer._calculate_trust_score: the sum, then
\* max(0.0, min(1.0, score))
calculate_trust_score(metrics) ==
    Bind(FAdd(FAdd(FAdd(FAdd(Frac(5, 10),
                             IF metrics.is_fact_checker THEN Frac(3, 10) ELSE FInt(0)),
                        IF metrics.is_academic THEN Frac(2, 10) ELSE FInt(0)),
                   IF metrics.is_unreliable THEN Frac(-4, 10) ELSE FInt(0)),
              IF metrics.domain_age = Age_established THEN Frac(1, 10) ELSE FInt(0)),
         LAMBDA score :
             Bind(FMin(FInt(1), score), LAMBDA capped :
                 IF FLeq(capped, FInt(0)) THEN FInt(0) ELSE capped))

\* analyze_source: the report of the except branch (credibility_analyzer.py 71-78)
ErrorReport(url, error) ==
    [keys |-> {"domain", "url", "trust_score", "error"},
     domain |-> S_unknown, url |-> url, domain_age |-> << >>,
     trust_score |-> FInt(0), is_fact_checker |-> FALSE, is_unreliable |-> FALSE,
     is_academic |-> FALSE, tld |-> << >>, error |-> error]

\* analyze_source: the metrics of a URL that was parsed, with the keys that
\* _fetch_domain_metadata adds
Metrics(url, netloc) ==
    Bind(Lower(Remove(netloc, S_www)), LAMBDA domain :
        Bind([keys |-> {"domain", "url", "domain_age", "trust_score", "popularity",
                        "bias", "fact_check_history", "is_fact_checker",
                        "is_unreliable", "is_academic", "tld", "popularity_rank",
                        "bias_rating", "country"},
              domain |-> domain, url |-> url,
              domain_age |-> estimate_domain_age(domain),
              trust_score |-> Frac(5, 10),
              is_fact_checker |-> domain \in fact_check_domains,
              is_unreliable |-> domain \in unreliable_domains,
              is_academic |-> \E ext \in academic_domains : HasSuffix(domain, ext),
              tld |-> IF Contains(netloc, <<".">>) THEN AfterLastDot(netloc) ELSE << >>,
              error |-> << >>],
             LAMBDA metrics :
                 [metrics EXCEPT !.trust_score = calculate_trust_score(metrics)]))

\* what a call gives its caller
Returns(value) == [raised |-> FALSE, value |-> value]

Raises(error) == [raised |-> TRUE, value |-> [keys |-> {}], error |-> error]

\* the try body of analyze_source; url is a JSON value: for one that is no
\* str the parse result holds bytes and netloc.replace raises a TypeError
TryAnalyze(url) ==
    IF url.t # "str" THEN Raises(Err_not_str)
    ELSE Bind(urlparse(url.s), LAMBDA parsed :
             IF parsed.ok THEN Returns(Metrics(url, parsed.netloc))
             ELSE Raises(parsed.error))

\* an analyze_source without its except branch
AnalyzeSourceUncaught(url) == TryAnalyze(url)

\* CredibilityAnalyzer.analyze_source
analyze_source(url) ==
    Bind(TryAnalyze(url), LAMBDA body :
        IF body.raised THEN Returns(ErrorReport(url, body.error)) ELSE body)

\* CredibilityAnalyzer.analyze_multiple_sources: an exception of
\* analyze_source would leave the list comprehension
analyze_multiple_sources(urls) ==
    Bind([i \in 1..Len(urls) |-> analyze_source(urls[i])], LAMBDA calls :
        IF \E i \in 1..Len(calls) : calls[i].raised
        THEN calls[CHOOSE i \in 1..Len(calls) :
                       calls[i].raised /\ \A j \in 1..(i - 1) : ~calls[j].raised]
        ELSE Bind([i \in 1..Len(calls) |-> calls[i].value], LAMBDA analyses :
            IF Len(analyses) = 0
            THEN Returns([keys |-> {"average_trust_score", "source_count", "sources"},
                          average_trust_score |-> FInt(0), source_count |-> 0,
                          fact_checker_sources |-> 0, academic_sources |-> 0,
                          unreliable_sources |-> 0, sources |-> << >>])
            ELSE Returns(
                     [keys |-> {"average_trust_score", "source_count",
                                "fact_checker_sources", "academic_sources",
                                "unreliable_sources", "sources"},
                      average_trust_score |->
                          FDiv(FSum([i \in 1..Len(analyses) |-> analyses[i].trust_score]),
                               Len(analyses)),
                      source_count |-> Len(analyses),
                      fact_checker_sources |->
                          Cardinality({i \in 1..Len(analyses) : analyses[i].is_fact_checker}),
                      academic_sources |->
                          Cardinality({i \in 1..Len(analyses) : analyses[i].is_academic}),
                      unreliable_sources |->
                          Cardinality({i \in 1..Len(analyses) : analyses[i].is_unreliable}),
                      sources |-> analyses])))

----------------------------------------------------------------------------
\* String literals of app/routes/verify.py and of AutoGenService.debate_claim

\* (verify.py 134)
\* Found 
DdgExplHead ==
    <<"F","o","u","n","d"," ">>

\* (verify.py 134)
\*  web search results from DuckDuckGo. Review the sources below to verify the claim.
DdgExplTail ==
    <<" ","w","e","b"," ","s","e","a","r","c","h"," ","r","e","s","u","l","t","s"," ","f","r",
      "o","m"," ","D","u","c","k","D","u","c","k","G","o","."," ","R","e","v","i","e","w"," ",
      "t","h","e"," ","s","o","u","r","c","e","s"," ","b","e","l","o","w"," ","t","o"," ","v",
      "e","r","i","f","y"," ","t","h","e"," ","c","l","a","i","m",".">>

\* (verify.py 158)
\* Knowledge Base
S_KnowledgeBase ==
    <<"K","n","o","w","l","e","d","g","e"," ","B","a","s","e">>

\* (verify.py 266)
\* Verification failed: 
DetailHead ==
    <<"V","e","r","i","f","i","c","a","t","i","o","n"," ","f","a","i","l","e","d",":"," ">>

\* (autogen_service.py 47)
\* AutoGen service not enabled
ExplNotEnabled ==
    <<"A","u","t","o","G","e","n"," ","s","e","r","v","i","c","e"," ","n","o","t"," ","e","n",
      "a","b","l","e","d">>

\* (autogen_service.py 71)
\* AutoGen service unavailable: 
ExplUnavailable ==
    <<"A","u","t","o","G","e","n"," ","s","e","r","v","i","c","e"," ","u","n","a","v","a","i",
      "l","a","b","l","e",":"," ">>

\* (autogen_service.py 48, 72)
\* agent_responses
K_agent_responses ==
    <<"a","g","e","n","t","_","r","e","s","p","o","n","s","e","s">>

\* (str(e) of the TypeError of a list indexed by a str)
\* list indices must be integers or slices, not str
Err_list_index ==
    <<"l","i","s","t"," ","i","n","d","i","c","e","s"," ","m","u","s","t"," ","b","e"," ","i",
      "n","t","e","g","e","r","s"," ","o","r"," ","s","l","i","c","e","s",","," ","n","o","t",
      " ","s","t","r">>

\* (str(e) of what the retriever's search raises)
\* Collection truthguard_kb does not exist.
Err_collection ==
    <<"C","o","l","l","e","c","t","i","o","n"," ","t","r","u","t","h","g","u","a","r","d","_",
      "k","b"," ","d","o","e","s"," ","n","o","t"," ","e","x","i","s","t",".">>

----------------------------------------------------------------------------
\* What the search engine and the debate service answer in the model

\* snopes.com
Source_snopes ==
    <<"s","n","o","p","e","s",".","c","o","m">>

\* Fact checkers confirmed that the Earth is round.
Snippet_checked ==
    <<"F","a","c","t"," ","c","h","e","c","k","e","r","s"," ","c","o","n","f","i","r","m","e",
      "d"," ","t","h","a","t"," ","t","h","e"," ","E","a","r","t","h"," ","i","s"," ","r","o",
      "u","n","d",".">>

\* Fact check
Title_checked ==
    <<"F","a","c","t"," ","c","h","e","c","k">>

\* Agents agree.
Expl_debate ==
    <<"A","g","e","n","t","s"," ","a","g","r","e","e",".">>

----------------------------------------------------------------------------
\* The inputs the model explores: claim texts, evidence items, prompts, the
\* texts a wire tier returns and the messages of the exceptions it raises

\* The Earth is round.
Claim_earth ==
    <<"T","h","e"," ","E","a","r","t","h"," ","i","s"," ","r","o","u","n","d",".">>

\* The moon landing was a fake hoax conspiracy
Claim_fake ==
    <<"T","h","e"," ","m","o","o","n"," ","l","a","n","d","i","n","g"," ","w","a","s"," ","a",
      " ","f","a","k","e"," ","h","o","a","x"," ","c","o","n","s","p","i","r","a","c","y">>

\* Vaccines are a hoax conspiracy
Claim_tie ==
    <<"V","a","c","c","i","n","e","s"," ","a","r","e"," ","a"," ","h","o","a","x"," ","c","o",
      "n","s","p","i","r","a","c","y">>

\* It is a proven and somewhat established fact.
Claim_proven ==
    <<"I","t"," ","i","s"," ","a"," ","p","r","o","v","e","n"," ","a","n","d"," ","s","o","m",
      "e","w","h","a","t"," ","e","s","t","a","b","l","i","s","h","e","d"," ","f","a","c","t",
      ".">>

\* Scientific Evidence
Title_support ==
    <<"S","c","i","e","n","t","i","f","i","c"," ","E","v","i","d","e","n","c","e">>

\* https://example.com
Url_support ==
    <<"h","t","t","p","s",":","/","/","e","x","a","m","p","l","e",".","c","o","m">>

\* Multiple space missions have confirmed the Earth's spherical shape.
Snippet_support ==
    <<"M","u","l","t","i","p","l","e"," ","s","p","a","c","e"," ","m","i","s","s","i","o","n",
      "s"," ","h","a","v","e"," ","c","o","n","f","i","r","m","e","d"," ","t","h","e"," ","E",
      "a","r","t","h","'","s"," ","s","p","h","e","r","i","c","a","l"," ","s","h","a","p","e",
      ".">>

\* Myth busting
Title_refute ==
    <<"M","y","t","h"," ","b","u","s","t","i","n","g">>

\* Experts debunk the idea that the Earth is round.
Snippet_refute ==
    <<"E","x","p","e","r","t","s"," ","d","e","b","u","n","k"," ","t","h","e"," ","i","d","e",
      "a"," ","t","h","a","t"," ","t","h","e"," ","E","a","r","t","h"," ","i","s"," ","r","o",
      "u","n","d",".">>

\* Reader letter
Title_letter ==
    <<"R","e","a","d","e","r"," ","l","e","t","t","e","r">>

\* https://example.org/letter
Url_letter ==
    <<"h","t","t","p","s",":","/","/","e","x","a","m","p","l","e",".","o","r","g","/","l","e",
      "t","t","e","r">>

\* That the Earth is round is incorrect.
Snippet_incorrect ==
    <<"T","h","a","t"," ","t","h","e"," ","E","a","r","t","h"," ","i","s"," ","r","o","u","n",
      "d"," ","i","s"," ","i","n","c","o","r","r","e","c","t",".">>

\* KB Document
Title_kb ==
    <<"K","B"," ","D","o","c","u","m","e","n","t">>

\* The moon orbits the Earth.
Text_kb ==
    <<"T","h","e"," ","m","o","o","n"," ","o","r","b","i","t","s"," ","t","h","e"," ","E","a",
      "r","t","h",".">>

\* Say hello in one sentence.
Prompt_hello ==
    <<"S","a","y"," ","h","e","l","l","o"," ","i","n"," ","o","n","e"," ","s","e","n","t","e",
      "n","c","e",".">>

\* Is it a proven fact or a fake?
Prompt_check ==
    <<"I","s"," ","i","t"," ","a"," ","p","r","o","v","e","n"," ","f","a","c","t"," ","o","r",
      " ","a"," ","f","a","k","e","?">>

\* {"verdict": "false", "confidence": 0.9, "explanation": "Refuted.", "citations": ["http ...
Resp_good ==
    <<"{","\"","v","e","r","d","i","c","t","\"",":"," ","\"","f","a","l","s","e","\"",","," ",
      "\"","c","o","n","f","i","d","e","n","c","e","\"",":"," ","0",".","9",","," ","\"","e",
      "x","p","l","a","n","a","t","i","o","n","\"",":"," ","\"","R","e","f","u","t","e","d",".",
      "\"",","," ","\"","c","i","t","a","t","i","o","n","s","\"",":"," ","[","\"","h","t","t",
      "p","s",":","/","/","e","x","a","m","p","l","e",".","c","o","m","\"","]","}">>

\* Here is my analysis:\n{"verdict": "true", "confidence": 0.8, "explanation": "ok", "cit ...
Resp_wrapped ==
    <<"H","e","r","e"," ","i","s"," ","m","y"," ","a","n","a","l","y","s","i","s",":","\n","{",
      "\"","v","e","r","d","i","c","t","\"",":"," ","\"","t","r","u","e","\"",","," ","\"","c",
      "o","n","f","i","d","e","n","c","e","\"",":"," ","0",".","8",","," ","\"","e","x","p","l",
      "a","n","a","t","i","o","n","\"",":"," ","\"","o","k","\"",","," ","\"","c","i","t","a",
      "t","i","o","n","s","\"",":"," ","[","]","}","\n","D","o","n","e",".">>

\* {"verdict": "Likely True", "confidence": 0.7}
Resp_maybe ==
    <<"{","\"","v","e","r","d","i","c","t","\"",":"," ","\"","L","i","k","e","l","y"," ","T",
      "r","u","e","\"",","," ","\"","c","o","n","f","i","d","e","n","c","e","\"",":"," ","0",
      ".","7","}">>

\* {"verdict": "true", "confidence": 95}
Resp_percent ==
    <<"{","\"","v","e","r","d","i","c","t","\"",":"," ","\"","t","r","u","e","\"",","," ","\"",
      "c","o","n","f","i","d","e","n","c","e","\"",":"," ","9","5","}">>

\* I cannot verify this claim.
Resp_prose ==
    <<"I"," ","c","a","n","n","o","t"," ","v","e","r","i","f","y"," ","t","h","i","s"," ","c",
      "l","a","i","m",".">>

\* {"verdict": "true", "confidence": "high"}
Resp_word ==
    <<"{","\"","v","e","r","d","i","c","t","\"",":"," ","\"","t","r","u","e","\"",","," ","\"",
      "c","o","n","f","i","d","e","n","c","e","\"",":"," ","\"","h","i","g","h","\"","}">>

\* [1, 2]
Resp_list ==
    <<"[","1",","," ","2","]">>

\* {"verdict": null, "confidence": null}
Resp_null ==
    <<"{","\"","v","e","r","d","i","c","t","\"",":"," ","n","u","l","l",","," ","\"","c","o",
      "n","f","i","d","e","n","c","e","\"",":"," ","n","u","l","l","}">>

\* {}
Resp_empty ==
    <<"{","}">>

\* [WinError 10061] No connection could be made because the target machine actively refus ...
Err_refused ==
    <<"[","W","i","n","E","r","r","o","r"," ","1","0","0","6","1","]"," ","N","o"," ","c","o",
      "n","n","e","c","t","i","o","n"," ","c","o","u","l","d"," ","b","e"," ","m","a","d","e",
      " ","b","e","c","a","u","s","e"," ","t","h","e"," ","t","a","r","g","e","t"," ","m","a",
      "c","h","i","n","e"," ","a","c","t","i","v","e","l","y"," ","r","e","f","u","s","e","d",
      " ","i","t">>

\* timed out
Err_timeout ==
    <<"t","i","m","e","d"," ","o","u","t">>

\* Server error '500 Internal Server Error'
Err_http ==
    <<"S","e","r","v","e","r"," ","e","r","r","o","r"," ","'","5","0","0"," ","I","n","t","e",
      "r","n","a","l"," ","S","e","r","v","e","r"," ","E","r","r","o","r","'">>

ClaimTexts == {Claim_earth, Claim_fake, Claim_tie, Claim_proven}

Ev_support ==
    [keys |-> {"title", "url", "snippet", "type"}, title |-> Title_support,
     url |-> Url_support, snippet |-> Snippet_support, text |-> << >>, type |-> S_web]

\* a web result whose url is the empty text
Ev_refute ==
    [keys |-> {"title", "url", "snippet", "type"}, title |-> Title_refute,
     url |-> << >>, snippet |-> Snippet_refute, text |-> << >>, type |-> S_web]

\* a knowledge base result: text instead of snippet, no url
Ev_kb ==
    [keys |-> {"title", "text", "type"}, title |-> Title_kb,
     url |-> << >>, snippet |-> << >>, text |-> Text_kb, type |-> S_kb]

\* a web result whose only signal word is incorrect
Ev_incorrect ==
    [keys |-> {"title", "url", "snippet", "type"}, title |-> Title_letter,
     url |-> Url_letter, snippet |-> Snippet_incorrect, text |-> << >>, type |-> S_web]

EvidenceItems == {Ev_support, Ev_refute, Ev_kb, Ev_incorrect}

\* the longest evidence list explored
MaxEvidence == 3

\* the evidence lists of at most MaxEvidence items, no item twice
EvidenceLists ==
    {ev \in UNION {[1..k -> EvidenceItems] : k \in 0..MaxEvidence} :
        \A i, j \in 1..Len(ev) : i # j => ev[i] # ev[j]}

\* five items of which two confirm or are neutral and two refute, and the
\* lists that begin with these five
FiveItems == <<Ev_refute, Ev_support, Ev_kb, Ev_refute, Ev_kb>>

LongEvidence == {FiveItems, FiveItems \o <<Ev_refute>>, FiveItems \o <<Ev_support>>}

Prompts == {Prompt_hello, Prompt_check}

\* what a wire tier returns to a verification prompt when it does not raise:
\* a str, or (with {"content": null} in the body) a value that is no str
VerifyAnswers ==
    {JStr(Resp_good), JStr(Resp_wrapped), JStr(Resp_maybe), JStr(Resp_percent),
     JStr(Resp_prose), JStr(Resp_word), JStr(Resp_list), JStr(Resp_null),
     JStr(Resp_empty), JNull}

\* what a wire tier returns to an extraction prompt when it does not raise
ExtractAnswers ==
    {JStr(Resp_claims), JStr(Resp_fenced), JStr(Resp_one), JStr(Resp_good),
     JStr(Resp_prose), JStr(Resp_list), JNull}

\* str(e) of what a wire tier raises: connection refused, timeout, HTTP status
WireErrors == {Err_refused, Err_timeout, Err_http}

\* the texts handed to ClaimExtractor.extract
Texts ==
    {Text_empty, Text_short, Text_padded, Text_ten, Text_dup, Text_mix, Text_nested}

\* what the retriever's search returns: one knowledge base document
Rag_doc == [text |-> Rag_text, has_title |-> TRUE, title |-> Rag_title]

\* the retriever of a call: none, one whose search raises, one that finds
\* nothing, one that finds a document
NoRetriever == [retriever |-> FALSE, raises |-> FALSE, results |-> << >>]
Retrievers ==
    {[retriever |-> TRUE, raises |-> TRUE, results |-> << >>],
     [retriever |-> TRUE, raises |-> FALSE, results |-> << >>],
     [retriever |-> TRUE, raises |-> FALSE, results |-> <<Rag_doc>>]}

\* how a ClaimExtractor is constructed: use_llm, whether llm_service is given,
\* and the retriever (read by extract_with_llm only)
Configs ==
    {[use_llm |-> FALSE, llm_service |-> TRUE, rag |-> NoRetriever],
     [use_llm |-> TRUE, llm_service |-> FALSE, rag |-> NoRetriever]}
    \cup {[use_llm |-> TRUE, llm_service |-> TRUE, rag |-> r] : r \in Retrievers \cup {NoRetriever}}

\* the sentences of text from position i on, as a sentence segmenter cuts
\* them: each ends with its run of terminators
RECURSIVE SentencesFrom(_, _)
SentencesFrom(s, i) ==
    Bind2(s, i, LAMBDA x, a :
        IF a > Len(x) THEN << >>
        ELSE IF IsSpace(x[a]) THEN SentencesFrom(x, a + 1)
        ELSE Bind(AfterTerminators(x, RunEnd(x, a, Terminators) + 1) - 1, LAMBDA e :
                 <<SubSeq(x, a, e)>> \o SentencesFrom(x, e + 1)))

\* what the parser finds in a sentence: <<a root verb, a subject>>
ParseFlags == {<<TRUE, TRUE>>, <<TRUE, FALSE>>, <<FALSE, TRUE>>}

\* what self.nlp(text) gives: no model loaded, an exception, or a parse of
\* the sentences of text with what the parser found in each
SpacyOutcomes(t) ==
    {[kind |-> "no_model", sents |-> << >>], [kind |-> "raises", sents |-> << >>]}
    \cup Bind(SentencesFrom(t, 1), LAMBDA ss :
             {[kind |-> "doc",
               sents |-> [k \in 1..Len(ss) |->
                            [text |-> ss[k], root_verb |-> f[k][1], subject |-> f[k][2]]]] :
              f \in [1..Len(ss) -> ParseFlags]})

----------------------------------------------------------------------------
\* LLMService.verify_claim and LLMService.generate as a state machine

VARIABLES
    pc,        \* Idle, TryPrimaryWireShape, TrySecondaryWireShape, RuleBasedFallback, Parse, Done
    op,        \* the method called: "none", "verify_claim" or "generate"
    claim,     \* verify_claim's claim
    evidence,  \* verify_claim's evidence
    prompt,    \* generate's prompt, after _format_json_prompt
    attempts,  \* the tiers generate has attempted, in order, each with its outcome
    printed,   \* the tiers whose failure generate has printed
    response,  \* what generate returned
    result,    \* what verify_claim returned
    path,      \* "none", "llm" (lines 402-407) or "rule_based" (lines 412, 416)
    raised,    \* the call has raised to its caller
    call_counts,  \* how often the call has called generate and _rule_based_verify_claim
    text,         \* extract's text
    config,       \* the ClaimExtractor's use_llm, llm_service and rag_retriever
    doc,          \* what the spaCy strategy was given by self.nlp
    all_claims,   \* extract's all_claims, before the sort
    claim_texts,  \* extract's claim_texts
    extracted,    \* what extract returned
    fallback_raised,  \* the fallback strategy raised inside its try
    verdicts,           \* the responses handed to the two aggregate_verdicts
    normalized,         \* a verdict string and what normalize_verdict made of it, in turn
    aggregate,          \* what scoring.aggregate_verdicts returned
    debate_aggregate,   \* what AutoGenService.aggregate_verdicts returned
    urls,            \* the URLs handed to the CredibilityAnalyzer
    metrics,         \* the metrics handed to _calculate_trust_score
    trust_score,     \* what _calculate_trust_score returned
    source_report,   \* a URL and what analyze_source returned for it
    sources_report,  \* what analyze_multiple_sources returned
    autogen_service,    \* verify.py's autogen_service: "none", "disabled" or "enabled"
    request,            \* verify_claims' request
    stage,              \* Idle, Gather, Verify, Finish, Returned or Failed
    extracted_claims,   \* what claim_extractor.extract returned
    position,           \* the loop's place in extracted_claims
    loop_evidence,      \* evidence and source_credibility of the claim in progress
    verified_claims,    \* verify_claims' verified_claims
    llm_results_list,   \* verify_claims' llm_results_list
    ddg_results_list,   \* verify_claims' ddg_results_list
    verify_calls,       \* each verification call: the claim's id, the results appended
                        \* before it, and whether a debate request was posted
    http_response       \* what verify_claims answered

\* what a wire tier returns to the prompt of the call in progress
WireValues == IF op = "extract" THEN ExtractAnswers ELSE VerifyAnswers

llmVars ==
    <<pc, op, claim, evidence, prompt, attempts, printed, response, result, path, raised,
      call_counts>>

exVars == <<text, config, doc, all_claims, claim_texts, extracted, fallback_raised>>

scoreVars == <<verdicts, normalized, aggregate, debate_aggregate>>

credVars == <<urls, metrics, trust_score, source_report, sources_report>>

\* the variables of the other services
libVars == <<scoreVars, credVars>>

pipeVars == <<autogen_service, request, stage, extracted_claims, position, loop_evidence,
              verified_claims, llm_results_list, ddg_results_list, verify_calls,
              http_response>>

vars == <<llmVars, exVars, libVars, pipeVars>>

\* no call of the scoring functions has been made
NotCalled == [keys |-> {}]

ScoringIdle ==
    /\ verdicts = << >>
    /\ normalized = << >>
    /\ aggregate = NotCalled
    /\ debate_aggregate = NotCalled

\* no call of the CredibilityAnalyzer has been made
CredIdle ==
    /\ urls = << >>
    /\ metrics = NotCalled
    /\ trust_score = NotCalled
    /\ source_report = NotCalled
    /\ sources_report = NotCalled

\* no request has reached verify_claims
PipelineIdle ==
    /\ request = [mode |-> "none"]
    /\ stage = "Idle"
    /\ extracted_claims = << >>
    /\ position = 0
    /\ loop_evidence = NotCalled
    /\ verified_claims = << >>
    /\ llm_results_list = << >>
    /\ ddg_results_list = << >>
    /\ verify_calls = << >>
    /\ http_response = NotCalled

ExtractorInit ==
    /\ text = << >>
    /\ config = [use_llm |-> FALSE, llm_service |-> FALSE, rag |-> NoRetriever]
    /\ doc = [kind |-> "none", sents |-> << >>]
    /\ all_claims = << >>
    /\ claim_texts = {}
    /\ extracted = << >>
    /\ fallback_raised = FALSE

LLMInit ==
    /\ pc = "Idle"
    /\ op = "none"
    /\ claim = << >>
    /\ evidence = << >>
    /\ prompt = << >>
    /\ attempts = << >>
    /\ printed = << >>
    /\ response = JNull
    /\ result = JNull
    /\ path = "none"
    /\ raised = FALSE
    /\ call_counts = [generate |-> 0, verifier |-> 0]

\* verify_claim(claim, evidence) up to its call of generate(prompt, 0.3, strict_json=True)
CallVerifyClaim(c, ev) ==
    /\ pc = "Idle"
    /\ pc' = "TryPrimaryWireShape"
    /\ op' = "verify_claim"
    /\ claim' = c
    /\ evidence' = ev
    /\ prompt' = format_json_prompt(VerifyPrompt(c, ev))
    /\ call_counts' = [call_counts EXCEPT !.generate = @ + 1]
    /\ UNCHANGED <<attempts, printed, response, result, path, raised>>
    /\ UNCHANGED <<exVars, libVars, pipeVars>>

\* generate(prompt, strict_json=json_mode) called by another caller
CallGenerate(p, json_mode) ==
    /\ pc = "Idle"
    /\ pc' = "TryPrimaryWireShape"
    /\ op' = "generate"
    /\ prompt' = IF json_mode THEN format_json_prompt(p) ELSE p
    /\ call_counts' = [call_counts EXCEPT !.generate = @ + 1]
    /\ UNCHANGED <<claim, evidence, attempts, printed, response, result, path, raised>>
    /\ UNCHANGED <<exVars, libVars, pipeVars>>

\* where control goes when generate returns
AfterGenerate ==
    CASE op = "verify_claim" -> "Parse"
      [] op = "extract" -> "ExtractParse"
      [] OTHER -> "Done"

\* a generate that gives up on the wire when the connection is refused
NextTierSkipsOnRefused(tier, msg) ==
    IF tier = "TryPrimaryWireShape" /\ ~IsRefused(msg)
    THEN "TrySecondaryWireShape"
    ELSE "RuleBasedFallback"

\* generate: the tier to try after tier has raised an exception with message msg
NextTier(tier, msg) ==
    IF tier = "TryPrimaryWireShape" THEN "TrySecondaryWireShape" ELSE "RuleBasedFallback"

\* generate: whether the failure of a tier is printed
Prints(msg) == ~IsRefused(msg)

\* a wire tier (_call_openai_api / _call_ollama_api, then _call_completion_api) returns v
WireReturns(tier, v) ==
    /\ pc = tier
    /\ pc' = AfterGenerate
    /\ attempts' = Append(attempts, [tier |-> tier, raised |-> FALSE, value |-> v])
    /\ response' = v
    /\ UNCHANGED <<op, claim, evidence, prompt, printed, result, path, raised>>
    /\ UNCHANGED call_counts
    /\ UNCHANGED <<exVars, libVars, pipeVars>>

\* a wire tier raises an exception whose message is msg
WireRaises(tier, msg) ==
    /\ pc = tier
    /\ pc' = NextTier(tier, msg)
    /\ attempts' = Append(attempts, [tier |-> tier, raised |-> TRUE, value |-> JStr(msg)])
    /\ printed' = IF Prints(msg) THEN Append(printed, tier) ELSE printed
    /\ UNCHANGED <<op, claim, evidence, prompt, response, result, path, raised>>
    /\ UNCHANGED call_counts
    /\ UNCHANGED <<exVars, libVars, pipeVars>>

PrimaryReturns == \E v \in WireValues : WireReturns("TryPrimaryWireShape", v)
PrimaryRaises == \E msg \in WireErrors : WireRaises("TryPrimaryWireShape", msg)
SecondaryReturns == \E v \in WireValues : WireReturns("TrySecondaryWireShape", v)
SecondaryRaises == \E msg \in WireErrors : WireRaises("TrySecondaryWireShape", msg)

\* generate's last tier: return self._rule_based_fallback(prompt)
FallbackTier ==
    /\ pc = "RuleBasedFallback"
    /\ pc' = AfterGenerate
    /\ response' = JStr(rule_based_fallback(prompt))
    /\ attempts' = Append(attempts, [tier |-> "RuleBasedFallback", raised |-> FALSE,
                                     value |-> response'])
    /\ UNCHANGED <<op, claim, evidence, prompt, printed, result, path, raised>>
    /\ UNCHANGED call_counts
    /\ UNCHANGED <<exVars, libVars, pipeVars>>

\* a verify_claim that answers a response that is no JSON with a default result
HandlerResultDefault(exc, c, ev) ==
    IF exc = "JSONDecodeError"
    THEN ResultDict(JStr(V_unverified), JFloat(Frac(5, 10)), JStr(<< >>), JList(<< >>))
    ELSE rule_based_verify_claim(c, ev)

\* verify_claim's handlers for exception exc (llm.py 408-416): both return
\* self._rule_based_verify_claim(claim, evidence)
HandlerResult(exc, c, ev) == rule_based_verify_claim(c, ev)

\* a verify_claim that sends the request again after a handler has run
AfterHandlerRetries(exc) == "TryPrimaryWireShape"

\* verify_claim: each handler returns to the caller (llm.py 412, 416)
AfterHandler(exc) == "Done"

\* verify_claim after generate has returned: parse and coerce, or the handlers
VerifyClaimReturn ==
    /\ pc = "Parse"
    /\ \E p \in {ParseResponse(response)} :
           IF p.exc = "none"
           THEN /\ result' = p.value
                /\ path' = "llm"
                /\ raised' = FALSE
                /\ pc' = "Done"
                /\ UNCHANGED call_counts
           ELSE IF Handled(p.exc)
           THEN /\ result' = HandlerResult(p.exc, claim, evidence)
                /\ path' = "rule_based"
                /\ raised' = FALSE
                /\ pc' = AfterHandler(p.exc)
                /\ call_counts' = [call_counts EXCEPT !.verifier = @ + 1]
           ELSE /\ result' = JNull
                /\ path' = "none"
                /\ raised' = TRUE
                /\ pc' = "Done"
                /\ UNCHANGED call_counts
    /\ UNCHANGED <<op, claim, evidence, prompt, attempts, printed, response>>
    /\ UNCHANGED <<exVars, libVars, pipeVars>>

Init ==
    /\ LLMInit /\ ExtractorInit /\ ScoringIdle /\ CredIdle
    /\ autogen_service = "none" /\ PipelineIdle

----------------------------------------------------------------------------
\* ClaimExtractor.extract as a state machine: its calls of self.nlp and of
\* llm_service.generate are the points where it waits for an answer

\* extract(text) up to its call of extract_with_spacy
CallExtract(t, cfg) ==
    /\ pc = "Idle"
    /\ op' = "extract"
    /\ text' = t
    /\ config' = cfg
    /\ IF TooShort(t)
       THEN pc' = "Done" /\ extracted' = << >>
       ELSE pc' = "SpacyStrategy" /\ UNCHANGED extracted
    /\ UNCHANGED <<claim, evidence, prompt, attempts, printed, response, result, path, raised>>
    /\ UNCHANGED call_counts
    /\ UNCHANGED <<doc, all_claims, claim_texts, fallback_raised>>
    /\ UNCHANGED <<libVars, pipeVars>>

\* extract: the state of the fusion before the first strategy
NoClaims == [all_claims |-> << >>, claim_texts |-> {}]

\* extract: the spaCy strategy and its loop; outcome is what self.nlp gave
AfterSpacy(outcome) ==
    IF outcome.kind = "raises" THEN NoClaims
    ELSE FuseSpacy(NoClaims, extract_with_spacy(outcome), 1)

\* an extract whose fallback strategy, when it raises, takes the claims of the
\* other strategies with it
FallbackStrategyAborts(st, t, raises) ==
    IF raises THEN NoClaims ELSE AfterFallback(st, t)

\* extract: the fallback strategy inside its try (claim_extractor.py 298-320);
\* when _extract_simple raises (re.split on a text that is no str), the
\* handler prints and the fusion stays as it was
FallbackStrategy(st, t, raises) ==
    IF raises THEN st ELSE AfterFallback(st, t)

\* extract: `self.use_llm and self.llm_service`
LlmEnabled(cfg) == cfg.use_llm /\ cfg.llm_service

\* the spaCy strategy ends; extract goes on to extract_with_llm's call of
\* generate, or without an LLM to the fallback strategy, the sort and the return
SpacyStrategy(outcome) ==
    /\ pc = "SpacyStrategy"
    /\ doc' = outcome
    /\ IF LlmEnabled(config)
       THEN \E st \in {AfterSpacy(outcome)} :
                /\ pc' = "TryPrimaryWireShape"
                /\ prompt' = format_json_prompt(ExtractPrompt(Context(config.rag), text))
                /\ call_counts' = [call_counts EXCEPT !.generate = @ + 1]
                /\ all_claims' = st.all_claims
                /\ claim_texts' = st.claim_texts
                /\ UNCHANGED <<extracted, fallback_raised>>
       ELSE \E raises \in BOOLEAN :
            \E st \in {FallbackStrategy(AfterSpacy(outcome), text, raises)} :
                /\ pc' = "Done"
                /\ fallback_raised' = raises
                /\ all_claims' = st.all_claims
                /\ claim_texts' = st.claim_texts
                /\ extracted' = SortAndRenumber(st.all_claims)
                /\ UNCHANGED <<prompt, call_counts>>
    /\ UNCHANGED <<op, claim, evidence, attempts, printed, response, result, path, raised>>
    /\ UNCHANGED <<text, config>>
    /\ UNCHANGED <<libVars, pipeVars>>

\* extract: the LLM loop (claim_extractor.py 269-289)
AfterLlm(st, llm_claims) == FuseSimilar(st, llm_claims, 1, FALSE)

\* generate has returned to extract_with_llm: the LLM loop, the fallback
\* strategy, the sort and the return
ExtractReturn ==
    /\ pc = "ExtractParse"
    /\ pc' = "Done"
    /\ \E raises \in BOOLEAN :
       \E st \in {FallbackStrategy(AfterLlm([all_claims |-> all_claims,
                                               claim_texts |-> claim_texts],
                                              extract_with_llm(response, config.rag)),
                                     text, raises)} :
        /\ fallback_raised' = raises
        /\ all_claims' = st.all_claims
        /\ claim_texts' = st.claim_texts
        /\ extracted' = SortAndRenumber(st.all_claims)
    /\ UNCHANGED <<op, claim, evidence, prompt, attempts, printed, response, result, path, raised>>
    /\ UNCHANGED call_counts
    /\ UNCHANGED <<text, config, doc>>
    /\ UNCHANGED <<libVars, pipeVars>>


----------------------------------------------------------------------------
\* The scoring functions applied to lists of responses

\* the responses aggregated: the four standard verdicts, a verdict written
\* with a capital and a blank, one that is no known word, and a dict
\* without keys
Responses ==
    {Response({"verdict", "confidence", "explanation"}, V_true, Frac(9, 10), Expl_agent),
     Response({"verdict", "confidence", "explanation"}, V_false, Frac(8, 10), Expl_agent),
     Response({"verdict", "confidence"}, Raw_false, Frac(7, 10), << >>),
     Response({"verdict", "confidence", "explanation"}, V_misleading, Frac(6, 10), Expl_agent),
     Response({"verdict", "confidence"}, V_unverified, Frac(2, 10), << >>),
     Response({"verdict", "confidence"}, Raw_unknown, Frac(5, 10), << >>),
     Response({}, << >>, FInt(0), << >>)}

\* the longest list of responses explored
MaxVerdicts == 3

VerdictLists == UNION {[1..k -> Responses] : k \in 0..MaxVerdicts}

ScoringInit ==
    /\ LLMInit
    /\ ExtractorInit
    /\ verdicts \in VerdictLists
    /\ normalized = << >>
    /\ aggregate = NotCalled
    /\ debate_aggregate = NotCalled
    /\ CredIdle
    /\ autogen_service = "none" /\ PipelineIdle

\* normalize_verdict(verdict) for the verdict of response i
NormalizeVerdict(i) ==
    /\ normalized = << >>
    /\ i \in 1..Len(verdicts)
    /\ "verdict" \in verdicts[i].keys
    /\ normalized' = <<verdicts[i].verdict, normalize_verdict(verdicts[i].verdict)>>
    /\ UNCHANGED <<verdicts, aggregate, debate_aggregate>>
    /\ UNCHANGED <<llmVars, exVars, credVars, pipeVars>>

\* the words of normalize_verdict's three lists, and unverified
VerdictWords ==
    {true_variants[k] : k \in 1..Len(true_variants)}
        \cup {false_variants[k] : k \in 1..Len(false_variants)}
        \cup {misleading_variants[k] : k \in 1..Len(misleading_variants)}
        \cup {V_unverified}

\* normalize_verdict(verdict) for a verdict that is one of the words
NormalizeWord(verdict) ==
    /\ normalized = << >>
    /\ normalized' = <<verdict, normalize_verdict(verdict)>>
    /\ UNCHANGED <<verdicts, aggregate, debate_aggregate>>
    /\ UNCHANGED <<llmVars, exVars, credVars, pipeVars>>

\* normalize_verdict applied to what normalize_verdict returned
NormalizeAgain ==
    /\ Len(normalized) = 2
    /\ normalized' = Append(normalized, normalize_verdict(normalized[2]))
    /\ UNCHANGED <<verdicts, aggregate, debate_aggregate>>
    /\ UNCHANGED <<llmVars, exVars, credVars, pipeVars>>

\* aggregate_verdicts(verdicts) of utils/scoring
AggregateVerdicts ==
    /\ aggregate = NotCalled
    /\ aggregate' = aggregate_verdicts(verdicts)
    /\ UNCHANGED <<verdicts, normalized, debate_aggregate>>
    /\ UNCHANGED <<llmVars, exVars, credVars, pipeVars>>

\* AutoGenService.aggregate_verdicts(agent_responses)
DebateAggregate ==
    /\ debate_aggregate = NotCalled
    /\ debate_aggregate' = autogen_aggregate_verdicts(verdicts)
    /\ UNCHANGED <<verdicts, normalized, aggregate>>
    /\ UNCHANGED <<llmVars, exVars, credVars, pipeVars>>

----------------------------------------------------------------------------
\* The CredibilityAnalyzer, applied to lists of URLs and to metrics

\* the URLs: of a fact checker, of an unreliable and of two academic
\* domains, of an .org domain, one that urlparse rejects, one without a
\* scheme, and a value that is no str
Urls ==
    {JStr(Url_snopes), JStr(Url_infowars), JStr(Url_mit), JStr(Url_org),
     JStr(Url_bracket), JStr(Url_caps), JStr(Url_bare), JNull}

\* the greatest number of URLs in one call
MaxUrls == 2

UrlLists == UNION {[1..k -> Urls] : k \in 0..MaxUrls}

\* the metrics _calculate_trust_score reads: every combination of the three
\* flags with every domain_age
FlagMetrics ==
    {[keys |-> {"is_fact_checker", "is_academic", "is_unreliable", "domain_age"},
      is_fact_checker |-> fc, is_academic |-> ac, is_unreliable |-> un,
      domain_age |-> age] :
     fc \in BOOLEAN, ac \in BOOLEAN, un \in BOOLEAN,
     age \in {Age_established, Age_likely, S_unknown}}

\* a caller holds either a list of URLs or the metrics of a source
CredInit ==
    /\ LLMInit
    /\ ExtractorInit
    /\ ScoringIdle
    /\ autogen_service = "none" /\ PipelineIdle
    /\ \/ urls \in UrlLists /\ metrics = NotCalled
       \/ urls = << >> /\ metrics \in FlagMetrics
    /\ trust_score = NotCalled
    /\ source_report = NotCalled
    /\ sources_report = NotCalled

\* _calculate_trust_score(metrics)
CalculateTrustScore ==
    /\ metrics # NotCalled
    /\ trust_score = NotCalled
    /\ trust_score' = calculate_trust_score(metrics)
    /\ UNCHANGED <<urls, metrics, source_report, sources_report>>
    /\ UNCHANGED <<llmVars, exVars, scoreVars, pipeVars>>

\* analyze_source(urls[i])
AnalyzeSource(i) ==
    /\ metrics = NotCalled
    /\ i \in 1..Len(urls)
    /\ source_report' = [url |-> urls[i], call |-> analyze_source(urls[i])]
    /\ source_report' # source_report
    /\ UNCHANGED <<urls, metrics, trust_score, sources_report>>
    /\ UNCHANGED <<llmVars, exVars, scoreVars, pipeVars>>

\* analyze_multiple_sources(urls)
AnalyzeMultipleSources ==
    /\ metrics = NotCalled
    /\ sources_report = NotCalled
    /\ sources_report' = analyze_multiple_sources(urls)
    /\ UNCHANGED <<urls, metrics, trust_score, source_report>>
    /\ UNCHANGED <<llmVars, exVars, scoreVars, pipeVars>>

----------------------------------------------------------------------------
\* AutoGenService.debate_claim (autogen_service.py 28-73)

\* the dict of the two branches that do not pass the answer on
NeutralResult(explanation) ==
    JDict(<<[k |-> K_verdict, v |-> JStr(V_unverified)],
            [k |-> K_confidence, v |-> JFloat(FInt(0))],
            [k |-> K_explanation, v |-> JStr(explanation)],
            [k |-> K_agent_responses, v |-> JList(<< >>)]>>)

\* a debate_claim without the test of self.enabled
debate_claim_unguarded(enabled, outcome) ==
    IF outcome.raises
    THEN [sent |-> TRUE, value |-> NeutralResult(ExplUnavailable \o outcome.error)]
    ELSE [sent |-> TRUE, value |-> outcome.body]

\* debate_claim; outcome is what client.post, raise_for_status and
\* response.json() would give: an exception with its text, or the JSON value
\* of the body of an answer with status 200.  sent: the request was posted
debate_claim(enabled, outcome) ==
    IF ~enabled THEN [sent |-> FALSE, value |-> NeutralResult(ExplNotEnabled)]
    ELSE IF outcome.raises
    THEN [sent |-> TRUE, value |-> NeutralResult(ExplUnavailable \o outcome.error)]
    ELSE [sent |-> TRUE, value |-> outcome.body]

----------------------------------------------------------------------------
\* verify_claims (routes/verify.py 66-266): the body of its loop

\* LLMService.verify_claim(claim, evidence) as the pipeline sees it, when
\* generate has returned generated (llm.py 390-416)
llm_verify_claim(c, ev, generated) ==
    Bind(ParseResponse(generated), LAMBDA p :
        IF p.exc = "none" THEN [raised |-> FALSE, value |-> p.value]
        ELSE IF Handled(p.exc)
        THEN [raised |-> FALSE, value |-> HandlerResult(p.exc, c, ev)]
        ELSE [raised |-> TRUE, value |-> JNull])

\* value[key] for a str key: the item of a dict, a KeyError for a dict
\* without the key, a TypeError for a list
Subscript(value, key) ==
    IF value.t = "dict"
    THEN IF DictHas(value, key)
         THEN [exc |-> "none", v |-> DictGet(value, key, JNull), error |-> << >>]
         ELSE [exc |-> "KeyError", v |-> JNull, error |-> <<"'">> \o key \o <<"'">>]
    ELSE [exc |-> "TypeError", v |-> JNull, error |-> Err_list_index]

\* the evidence items made of the search results (verify.py 145-152)
WebEvidence(search_results) ==
    [i \in 1..Len(search_results) |->
        [keys |-> {"title", "url", "snippet", "source", "type"},
         title |-> search_results[i].title, url |-> search_results[i].url,
         snippet |-> search_results[i].snippet, text |-> << >>,
         source |-> search_results[i].source, type |-> S_web]]

\* the evidence items made of the knowledge base results (verify.py 154-160)
KbEvidence(kb_results) ==
    [i \in 1..Len(kb_results) |->
        [keys |-> {"title", "text", "source", "type"},
         title |-> IF kb_results[i].has_title THEN kb_results[i].title ELSE Title_kb,
         url |-> << >>, snippet |-> << >>, text |-> kb_results[i].text,
         source |-> S_KnowledgeBase, type |-> S_kb]]

\* [e.get("url") for e in evidence if e.get("url")] (verify.py 135, 163)
EvidenceUrls(ev) ==
    Bind(SelectSeq(ev, LAMBDA e : Len(EvGet(e, "url", << >>)) > 0), LAMBDA with_url :
        [i \in 1..Len(with_url) |-> JStr(with_url[i].url)])

\* source_credibility (verify.py 163-168)
SourceCredibility(ev) ==
    Bind(EvidenceUrls(ev), LAMBDA found :
        IF Len(found) > 0
        THEN analyze_multiple_sources(found).value.average_trust_score
        ELSE Frac(5, 10))

\* ddg_result (verify.py 129-140)
DdgResult(claim_data, search_results) ==
    Bind(WebEvidence(search_results), LAMBDA ddg_evidence :
        [id |-> claim_data.id, text |-> claim_data.claim,
         verdict |-> JStr(V_unverified), confidence |-> JFloat(Frac(5, 10)),
         explanation |-> JStr(DdgExplHead \o IntToStr(Len(ddg_evidence)) \o DdgExplTail),
         citations |-> JList(EvidenceUrls(ddg_evidence)),
         evidence_count |-> Len(ddg_evidence), source_credibility |-> Frac(5, 10),
         evidence |-> ddg_evidence, method |-> "ddg_search"])

\* the dict appended to verified_claims (verify.py 177-202), or the exception
\* of the first subscript that fails; llm_result has the same items and "method"
ResultEntry(claim_data, verification_result, ev, source_credibility) ==
    Bind(<<Subscript(verification_result, K_verdict),
           Subscript(verification_result, K_confidence),
           Subscript(verification_result, K_explanation)>>, LAMBDA got :
        IF \E k \in 1..3 : got[k].exc # "none"
        THEN Bind(got[CHOOSE k \in 1..3 :
                          got[k].exc # "none" /\ \A j \in 1..(k - 1) : got[j].exc = "none"],
                  LAMBDA failed :
                      [exc |-> failed.exc, error |-> failed.error, entry |-> [id |-> 0]])
        ELSE [exc |-> "none", error |-> << >>,
              entry |-> [id |-> claim_data.id, text |-> claim_data.claim,
                         verdict |-> got[1].v, confidence |-> got[2].v,
                         explanation |-> got[3].v,
                         citations |-> DictGet(verification_result, K_citations,
                                               JList(<< >>)),
                         evidence_count |-> Len(ev),
                         source_credibility |-> source_credibility,
                         evidence |-> Prefix(ev, 3)]])

\* a loop that puts the newest result first
PrependResult(results, entry) == <<entry>> \o results

\* verified_claims.append(...) (verify.py 192)
AppendResult(results, entry) == Append(results, entry)

----------------------------------------------------------------------------
\* verify_claims (routes/verify.py 66-266) as a state machine: its calls of
\* the search engine and the retriever, and of the verifier, are the points
\* where it waits for an answer

\* the claims of the requests
PipelineClaims == {Claim_earth, Claim_fake}

\* the greatest number of claims extract returns
MaxClaims == 2

\* what claim_extractor.extract returns: claims of different texts with the
\* ids 1, 2, ... in order
ExtractedLists ==
    {Renumber([k \in 1..Len(cs) |-> Claim(0, cs[k], Frac(9 - k, 10), "spacy")]) :
     cs \in {x \in UNION {[1..n -> PipelineClaims] : n \in 0..MaxClaims} :
                \A i, j \in 1..Len(x) : i # j => x[i] # x[j]}}

\* what search_engine.search returns (it returns [] where the search raises)
SearchResults ==
    {<< >>,
     <<[title |-> Title_checked, url |-> Url_snopes, snippet |-> Snippet_checked,
        source |-> Source_snopes],
       [title |-> Title_refute, url |-> << >>, snippet |-> Snippet_refute,
        source |-> << >>]>>}

\* what rag_retriever.search gives: it raises, finds nothing or finds a document
KbOutcomes ==
    {[raises |-> TRUE, error |-> Err_collection, results |-> << >>],
     [raises |-> FALSE, error |-> << >>, results |-> << >>],
     [raises |-> FALSE, error |-> << >>, results |-> <<Rag_doc>>]}

\* what generate returns to verify_claim: a well-formed answer, prose, or the
\* fallback tier's answer to the prompt
GeneratedAnswers(c, ev) ==
    {JStr(Resp_good), JStr(Resp_prose),
     JStr(rule_based_fallback(format_json_prompt(VerifyPrompt(c, ev))))}

\* the bodies of the debate service's answers with status 200: a full result,
\* a result without explanation, an empty object, a list
DebateBodies ==
    {JDict(<<[k |-> K_verdict, v |-> JStr(V_false)],
             [k |-> K_confidence, v |-> JFloat(Frac(8, 10))],
             [k |-> K_explanation, v |-> JStr(Expl_debate)],
             [k |-> K_agent_responses, v |-> JList(<< >>)]>>),
     JDict(<<[k |-> K_verdict, v |-> JStr(V_true)],
             [k |-> K_confidence, v |-> JFloat(Frac(9, 10))]>>),
     JDict(<< >>),
     JList(<< >>)}

\* what the post to the debate service gives
DebateOutcomes ==
    {[raises |-> TRUE, error |-> e, body |-> JNull] : e \in {Err_timeout, Err_http}}
    \cup {[raises |-> FALSE, error |-> << >>, body |-> b] : b \in DebateBodies}

\* settings.AUTOGEN_ENABLED and settings.AUTOGEN_ENDPOINT at import:
\* autogen_service is None, or an AutoGenService that is enabled or not
PipelineInit ==
    /\ LLMInit /\ ExtractorInit /\ ScoringIdle /\ CredIdle
    /\ autogen_service \in {"none", "disabled", "enabled"}
    /\ PipelineIdle

\* the except clause of verify_claims (verify.py 264-266)
Fails(error) ==
    /\ stage' = "Failed"
    /\ http_response' = [status |-> 500, detail |-> DetailHead \o error]

\* verify_claims up to the loop (verify.py 78-106); found is what
\* claim_extractor.extract(request.text) returned
CallVerifyClaims(mode, found) ==
    /\ stage = "Idle"
    /\ request' = [mode |-> mode]
    /\ extracted_claims' = found
    /\ IF Len(found) = 0
       THEN /\ stage' = "Returned"
            /\ http_response' = [status |-> 200, claims |-> << >>,
                                 llm_results |-> JNull, ddg_results |-> JNull]
            /\ UNCHANGED position
       ELSE /\ stage' = "Gather"
            /\ position' = 1
            /\ UNCHANGED http_response
    /\ UNCHANGED <<autogen_service, loop_evidence, verified_claims, llm_results_list,
                   ddg_results_list, verify_calls>>
    /\ UNCHANGED <<llmVars, exVars, libVars>>

\* the loop body up to the verification (verify.py 108-168)
GatherEvidence(search_results, kb) ==
    /\ stage = "Gather"
    /\ IF kb.raises
       THEN /\ Fails(kb.error)
            /\ UNCHANGED <<loop_evidence, ddg_results_list>>
       ELSE /\ stage' = "Verify"
            /\ ddg_results_list' =
                   Append(ddg_results_list,
                          DdgResult(extracted_claims[position], search_results))
            /\ \E ev \in {WebEvidence(search_results) \o KbEvidence(kb.results)} :
                   loop_evidence' = [evidence |-> ev,
                                     source_credibility |-> SourceCredibility(ev)]
            /\ UNCHANGED http_response
    /\ UNCHANGED <<autogen_service, request, extracted_claims, position, verified_claims,
                   llm_results_list, verify_calls>>
    /\ UNCHANGED <<llmVars, exVars, libVars>>

\* the rest of the loop body (verify.py 176-202) with the verification's
\* result: the two appends and the next claim, or the exception of a subscript
AppendResults(verification_result) ==
    \E r \in {ResultEntry(extracted_claims[position], verification_result,
                          loop_evidence.evidence, loop_evidence.source_credibility)} :
        IF r.exc # "none"
        THEN /\ Fails(r.error)
             /\ UNCHANGED <<position, verified_claims, llm_results_list>>
        ELSE /\ llm_results_list' = Append(llm_results_list, r.entry)
             /\ verified_claims' = AppendResult(verified_claims, r.entry)
             /\ position' = position + 1
             /\ stage' = IF position < Len(extracted_claims) THEN "Gather" ELSE "Finish"
             /\ UNCHANGED http_response

\* verify.py 171-172: autogen_service.debate_claim(claim_text, evidence)
DebateVerification(outcome) ==
    /\ stage = "Verify"
    /\ request.mode = "debate" /\ autogen_service # "none"
    /\ \E call \in {debate_claim(autogen_service = "enabled", outcome)} :
           /\ verify_calls' = Append(verify_calls,
                                     [id |-> extracted_claims[position].id,
                                      appended |-> Len(verified_claims),
                                      debate |-> TRUE, sent |-> call.sent,
                                      outcome |-> outcome, returned |-> call.value])
           /\ AppendResults(call.value)
    /\ UNCHANGED <<autogen_service, request, extracted_claims, loop_evidence,
                   ddg_results_list>>
    /\ UNCHANGED <<llmVars, exVars, libVars>>

\* verify.py 173-174: llm_service.verify_claim(claim_text, evidence), whose
\* generate returns one of the answers
LlmVerification ==
    /\ stage = "Verify"
    /\ ~(request.mode = "debate" /\ autogen_service # "none")
    /\ \E generated \in GeneratedAnswers(extracted_claims[position].claim,
                                         loop_evidence.evidence) :
       \E call \in {llm_verify_claim(extracted_claims[position].claim,
                                     loop_evidence.evidence, generated)} :
           /\ verify_calls' = Append(verify_calls,
                                     [id |-> extracted_claims[position].id,
                                      appended |-> Len(verified_claims),
                                      debate |-> FALSE, sent |-> FALSE,
                                      outcome |-> [raises |-> call.raised,
                                                  generated |-> generated],
                                      returned |-> call.value])
           /\ IF call.raised
              THEN /\ Fails(<< >>)
                   /\ UNCHANGED <<position, verified_claims, llm_results_list>>
              ELSE AppendResults(call.value)
    /\ UNCHANGED <<autogen_service, request, extracted_claims, loop_evidence,
                   ddg_results_list>>
    /\ UNCHANGED <<llmVars, exVars, libVars>>

\* after the loop (verify.py 204-262): the claims are added to a project, a
\* failure of which is logged, and the response is returned
ReturnResponse ==
    /\ stage = "Finish"
    /\ stage' = "Returned"
    /\ http_response' = [status |-> 200, claims |-> verified_claims,
                         llm_results |-> llm_results_list,
                         ddg_results |-> ddg_results_list]
    /\ UNCHANGED <<autogen_service, request, extracted_claims, position, loop_evidence,
                   verified_claims, llm_results_list, ddg_results_list, verify_calls>>
    /\ UNCHANGED <<llmVars, exVars, libVars>>

----------------------------------------------------------------------------
\* The specifications

\* the calls of LLMService
Next ==
    \/ \E c \in ClaimTexts, ev \in EvidenceLists \cup LongEvidence : CallVerifyClaim(c, ev)
    \/ \E p \in Prompts, json_mode \in BOOLEAN : CallGenerate(p, json_mode)
    \/ PrimaryReturns
    \/ PrimaryRaises
    \/ SecondaryReturns
    \/ SecondaryRaises
    \/ FallbackTier
    \/ VerifyClaimReturn

Spec == Init /\ [][Next]_vars

\* every call runs to its end: no step of a call waits on anything but the
\* backend, whose calls are bounded by their timeouts
LiveSpec == Spec /\ WF_vars(Next)

\* the calls of ClaimExtractor.extract, with the LLMService it calls
ExtractNext ==
    \/ \E t \in Texts, cfg \in Configs : CallExtract(t, cfg)
    \/ \E outcome \in SpacyOutcomes(text) : SpacyStrategy(outcome)
    \/ PrimaryReturns
    \/ PrimaryRaises
    \/ SecondaryReturns
    \/ SecondaryRaises
    \/ FallbackTier
    \/ ExtractReturn

ExtractSpec == Init /\ [][ExtractNext]_vars


\* the scoring functions, applied to each list of responses
ScoringNext ==
    \/ \E i \in 1..MaxVerdicts : NormalizeVerdict(i)
    \/ \E verdict \in VerdictWords : NormalizeWord(verdict)
    \/ NormalizeAgain
    \/ AggregateVerdicts
    \/ DebateAggregate

ScoringSpec == ScoringInit /\ [][ScoringNext]_vars

\* the CredibilityAnalyzer, applied to each list of URLs and each metrics
CredNext ==
    \/ CalculateTrustScore
    \/ \E i \in 1..MaxUrls : AnalyzeSource(i)
    \/ AnalyzeMultipleSources

CredSpec == CredInit /\ [][CredNext]_vars

\* the requests to verify_claims
PipelineNext ==
    \/ \E mode \in {"single", "debate"}, found \in ExtractedLists :
           CallVerifyClaims(mode, found)
    \/ \E search_results \in SearchResults, kb \in KbOutcomes :
           GatherEvidence(search_results, kb)
    \/ \E outcome \in DebateOutcomes : DebateVerification(outcome)
    \/ LlmVerification
    \/ ReturnResponse

PipelineSpec == PipelineInit /\ [][PipelineNext]_vars
----------------------------------------------------------------------------
\* Properties of LLMService

Verdicts == {V_true, V_false, V_misleading, V_unverified}

ResultKeys == {K_verdict, K_confidence, K_explanation, K_citations}

\* a JSON value is a dict with the four fields of a verification result
HasResultFields(v) == v.t = "dict" /\ \A k \in ResultKeys : DictHas(v, k)

\* a JSON value is a number
IsNumber(v) == v.t \in {"int", "float"}

\* generate has attempted and failed both wire tiers
BothWireTiersRaised ==
    /\ Len(attempts) >= 2
    /\ attempts[1].raised
    /\ attempts[2].raised

\* both wire tiers failed with a refused connection or a timeout
BackendUnreachable ==
    /\ BothWireTiersRaised
    /\ \A i \in 1..2 : attempts[i].value \in {JStr(Err_refused), JStr(Err_timeout)}

VerifyClaimDone == op = "verify_claim" /\ pc = "Done"

\* C1: LLMService.verify_claim terminates without raising, and what it returns
\* has a verdict, a confidence, an explanation and citations, whatever the
\* claim, the evidence and the outcome of each tier
C1_VerifyClaimAlwaysReturns ==
    /\ [](~raised)
    /\ [](VerifyClaimDone => HasResultFields(result))
    /\ (op = "verify_claim") ~> (pc = "Done")

\* C1 witness: verify_claim has returned a result with the four fields through
\* its handlers, after a wire tier returned a text that is no JSON
C1_Witness ==
    /\ VerifyClaimDone
    /\ path = "rule_based"
    /\ response = JStr(Resp_list)
    /\ HasResultFields(result)

TierOrder == <<"TryPrimaryWireShape", "TrySecondaryWireShape", "RuleBasedFallback">>

\* C2: generate attempts its tiers in the fixed order primary, secondary,
\* fallback, the next one exactly when the one before it raised, none twice,
\* and returns what the first tier that does not raise returned; the kind of
\* failure (refused connection, timeout, other) changes neither
C2_TiersInFixedOrder ==
    LET n == Len(attempts) IN
    /\ n <= 3
    /\ \A i \in 1..n : attempts[i].tier = TierOrder[i]
    /\ \A i \in 1..n : attempts[i].raised <=> (i < n \/ (n < 3 /\ pc = TierOrder[n + 1]))
    /\ pc \in {"TryPrimaryWireShape", "TrySecondaryWireShape", "RuleBasedFallback"}
           => n < 3 /\ pc = TierOrder[n + 1]
    /\ pc \in {"Parse", "Done"} /\ op # "extract"
           => n >= 1 /\ ~attempts[n].raised /\ response = attempts[n].value
    /\ n = 3 => attempts[3].value = JStr(rule_based_fallback(prompt))

\* C2 witness: the primary tier was refused the connection, the secondary tier
\* timed out, and generate returned the fallback tier's text
C2_Witness ==
    /\ Len(attempts) = 3
    /\ attempts[1].value = JStr(Err_refused)
    /\ attempts[2].value = JStr(Err_timeout)
    /\ pc = "Done"
    /\ response = attempts[3].value

\* C3: when both wire tiers fail, what verify_claim returns has the verdict,
\* the confidence and the citations of _rule_based_verify_claim(claim, evidence)
C3_ExhaustedCascadeIsRuleBasedVerifier ==
    VerifyClaimDone /\ BackendUnreachable =>
        \E r \in {rule_based_verify_claim(claim, evidence)} :
            /\ HasResultFields(result)
            /\ DictGet(result, K_verdict, JNull) = DictGet(r, K_verdict, JNull)
            /\ DictGet(result, K_confidence, JNull) = DictGet(r, K_confidence, JNull)
            /\ DictGet(result, K_citations, JNull) = DictGet(r, K_citations, JNull)

\* C4: with the backend unreachable and no evidence, verify_claim's verdict is
\* "unverified" whatever the claim
C4_NoEvidenceIsUnverified ==
    VerifyClaimDone /\ BackendUnreachable /\ evidence = << >> =>
        DictGet(result, K_verdict, JNull) = JStr(V_unverified)

\* whether some part of text that starts with { and ends with } is a JSON object
HasJsonObject(s) ==
    \E i \in 1..Len(s) : \E j \in i..Len(s) :
        /\ s[i] = "{"
        /\ s[j] = "}"
        /\ \E l \in {Loads(SubSeq(s, i, j))} : l.ok /\ l.v.t = "dict"

\* a wire tier returned what generate returned
WireTierAnswered ==
    /\ attempts # << >>
    /\ attempts[Len(attempts)].tier # "RuleBasedFallback"
    /\ ~attempts[Len(attempts)].raised

\* C5: when a wire tier returns a text with no parseable JSON object in it,
\* verify_claim returns what _rule_based_verify_claim(claim, evidence) returns,
\* and so it does on any other exception in parsing or coercing the response
C5_UnparseableIsRuleBasedVerifier ==
    VerifyClaimDone /\ WireTierAnswered =>
        \E p \in {ParseResponse(response)} :
            (p.exc # "none" \/ (response.t = "str" /\ ~HasJsonObject(response.s)))
                => /\ path = "rule_based"
                   /\ ~raised
                   /\ result = rule_based_verify_claim(claim, evidence)

\* C5 witness: the primary tier returned prose and verify_claim returned through
\* its handlers
C5_Witness ==
    /\ VerifyClaimDone
    /\ Len(attempts) = 1
    /\ response = JStr(Resp_prose)
    /\ ~HasJsonObject(response.s)
    /\ path = "rule_based"

\* C6: the verdict of what verify_claim returns is one of "true", "false",
\* "misleading", "unverified", whatever the backend put in the field
C6_VerdictInEnum ==
    VerifyClaimDone =>
        \E v \in {DictGet(result, K_verdict, JNull)} : v.t = "str" /\ v.s \in Verdicts

\* C7: the confidence of what verify_claim returns is in [0,1], whatever the
\* backend put in the field
C7_ConfidenceInUnit ==
    VerifyClaimDone =>
        \E v \in {DictGet(result, K_confidence, JNull)} : IsNumber(v) /\ InUnit(v.n)

\* C8: generate never raises, and with both wire tiers failing it returns the
\* fallback tier's text, which is a JSON object with a verdict among the four
\* values, a confidence in [0,1], an explanation and citations
C8_GenerateFallbackIsResultJson ==
    /\ op = "generate" => ~raised
    /\ BothWireTiersRaised /\ pc \in {"Parse", "ExtractParse", "Done"} =>
        /\ Len(attempts) = 3
        /\ attempts[3] = [tier |-> "RuleBasedFallback", raised |-> FALSE, value |-> response]
        /\ response.t = "str"
        /\ \E l \in {Loads(response.s)} :
            /\ l.ok
            /\ HasResultFields(l.v)
            /\ \E v \in {DictGet(l.v, K_verdict, JNull)} : v.t = "str" /\ v.s \in Verdicts
            /\ \E v \in {DictGet(l.v, K_confidence, JNull)} : IsNumber(v) /\ InUnit(v.n)
            /\ DictGet(l.v, K_explanation, JNull).t = "str"
            /\ DictGet(l.v, K_citations, JNull).t = "list"

\* C8 witness: generate, called for itself, returned the fallback tier's text
\* after both wire tiers raised
C8_Witness ==
    /\ op = "generate"
    /\ pc = "Done"
    /\ BothWireTiersRaised
    /\ response = JStr(rule_based_fallback(prompt))

----------------------------------------------------------------------------
\* Properties of ClaimExtractor

ExtractDone == op = "extract" /\ pc = "Done"

\* C9: after ClaimExtractor.extract, whatever the three strategies gave, no two
\* of the claims it returns have texts that are equal when case is ignored
C9_NoCaseInsensitiveDuplicates ==
    ExtractDone =>
        \A i \in 1..Len(extracted) : \A j \in (i + 1)..Len(extracted) :
            Lower(extracted[i].claim) # Lower(extracted[j].claim)

\* C9 witness: the spaCy strategy gave two claims that differ in case only,
\* and extract returned one claim
C9_Witness ==
    /\ ExtractDone
    /\ doc.kind = "doc"
    /\ \E cs \in {extract_with_spacy(doc)} :
        /\ Len(cs) = 2
        /\ cs[1].claim # cs[2].claim
        /\ Lower(cs[1].claim) = Lower(cs[2].claim)
    /\ Len(extracted) = 1

\* C10: in every list ClaimExtractor.extract returns each confidence is in
\* [0,1], the ids are 1..N in list order, and no claim has a higher confidence
\* than the one before it
C10_SortedWithContiguousIds ==
    ExtractDone =>
        \A i \in 1..Len(extracted) :
            /\ InUnit(extracted[i].confidence)
            /\ extracted[i].id = i
            /\ i > 1 => FLeq(extracted[i].confidence, extracted[i - 1].confidence)

\* C10 witness: the strategies gave a claim of lower confidence before one of
\* higher confidence, and extract returned them
C10_Witness ==
    /\ ExtractDone
    /\ Len(extracted) >= 2
    /\ Len(extracted) = Len(all_claims)
    /\ \E i \in 1..(Len(all_claims) - 1) :
           FLt(all_claims[i].confidence, all_claims[i + 1].confidence)


----------------------------------------------------------------------------
\* Failures of the extraction strategies

\* extract_with_llm's try raised: the response is no str, no JSON, or has an
\* item that is no dict with a str under "claim"
LlmRaised ==
    /\ LlmEnabled(config)
    /\ \/ response.t # "str"
       \/ ~Loads(CleanClaimsResponse(response.s)).ok
       \/ \E v \in {AsClaimsData(Loads(CleanClaimsResponse(response.s)).v)} :
              \E i \in 1..Len(v) : ~HasClaimText(v[i])

\* what each strategy contributes: its claims, or nothing when it raised
SpacyGave == IF doc.kind = "raises" THEN << >> ELSE extract_with_spacy(doc)

LlmGave ==
    IF ~LlmEnabled(config) \/ LlmRaised THEN << >>
    ELSE LlmClaimsOf(AsClaimsData(Loads(CleanClaimsResponse(response.s)).v),
                     BaseConfidence(config.rag), LlmMethod(config.rag))

SimpleGave == IF fallback_raised THEN << >> ELSE extract_simple(text)

\* the fusion of three sequences of claims: the three loops, the sort, the ids
Fusion(sp, llm, simple) ==
    SortAndRenumber(
        FuseSimilar(FuseSimilar(FuseSpacy(NoClaims, sp, 1), llm, 1, FALSE),
                    simple, 1, TRUE).all_claims)

\* extract went past its guard
StrategiesRan == ExtractDone /\ Len(Strip(text)) >= MinTextLen

\* C11: when a strategy of ClaimExtractor.extract raises, extract does not
\* raise, and it returns the fusion of what the other strategies gave with an
\* empty sequence in the place of the strategy that raised
C11_FailedStrategyCountsAsEmpty ==
    (StrategiesRan /\ (doc.kind = "raises" \/ LlmRaised \/ fallback_raised)) =>
        /\ ~raised
        /\ extracted = Fusion(SpacyGave, LlmGave, SimpleGave)

\* C11 witness: the fallback strategy raised after the spaCy strategy had
\* given claims, and extract returned claims
C11_Witness ==
    /\ StrategiesRan
    /\ fallback_raised
    /\ doc.kind = "doc"
    /\ Len(extract_with_spacy(doc)) > 0
    /\ Len(extracted) > 0

\* C12: for a text that is empty or has fewer than 10 characters once
\* trimmed, ClaimExtractor.extract returns an empty sequence without raising,
\* and neither a strategy nor the backend has been called
C12_ShortTextGivesNoClaims ==
    (ExtractDone /\ Len(Strip(text)) < 10) =>
        /\ extracted = << >>
        /\ ~raised
        /\ doc.kind = "none"
        /\ attempts = << >>
        /\ ~fallback_raised

\* C12 witness: extract has returned for a text of 10 characters or more
\* that has fewer than 10 once trimmed
C12_Witness ==
    /\ ExtractDone
    /\ Len(text) >= 10
    /\ Len(Strip(text)) < 10
    /\ extracted = << >>

----------------------------------------------------------------------------
\* Properties of the scoring functions

\* C13: normalize_verdict applied to its own result gives that result again,
\* and each of true, false, misleading, unverified is mapped to itself
C13_NormalizeIdempotent ==
    /\ Len(normalized) = 3 => normalized[3] = normalized[2]
    /\ (Len(normalized) >= 2 /\ normalized[1] \in Verdicts) => normalized[2] = normalized[1]

\* the normalized verdicts of the list under aggregation
NormalizedVerdicts ==
    [i \in 1..Len(verdicts) |-> normalize_verdict(ItemVerdict(verdicts[i]))]

\* how often v occurs in the sequence vs, and where it occurs first
Occurrences(vs, v) == Cardinality({i \in 1..Len(vs) : vs[i] = v})

FirstOccurrence(vs, v) == CHOOSE i \in 1..Len(vs) : vs[i] = v /\ \A j \in 1..(i - 1) : vs[j] # v

\* w has the greatest count in vs and, of the verdicts of that count, occurs first
IsFirstMajority(vs, w) ==
    /\ \E i \in 1..Len(vs) : vs[i] = w
    /\ \A i \in 1..Len(vs) :
        /\ Occurrences(vs, vs[i]) <= Occurrences(vs, w)
        /\ Occurrences(vs, vs[i]) = Occurrences(vs, w)
               => FirstOccurrence(vs, w) <= FirstOccurrence(vs, vs[i])

\* the vote of utils/scoring.aggregate_verdicts
ScoringVoteIsFirstMajority ==
    (aggregate # NotCalled /\ Len(verdicts) > 0) =>
        IsFirstMajority(NormalizedVerdicts, aggregate.verdict)

\* the vote of AutoGenService.aggregate_verdicts
DebateVoteIsFirstMajority ==
    (debate_aggregate # NotCalled /\ Len(verdicts) > 0) =>
        IsFirstMajority(NormalizedVerdicts, debate_aggregate.verdict)

\* C14: over a non-empty list aggregate_verdicts returns a verdict whose
\* count among the normalized verdicts is the greatest and, among the verdicts
\* of that count, the one that occurs first in the list
C14_MajorityVoteFirstSeen == ScoringVoteIsFirstMajority /\ DebateVoteIsFirstMajority

----------------------------------------------------------------------------
\* Properties of the rule-based verifier

\* verify_claim has returned what _rule_based_verify_claim(claim, evidence) gave
RuleBasedDone == VerifyClaimDone /\ path = "rule_based"

\* C15: with an empty evidence list _rule_based_verify_claim returns verdict
\* unverified, confidence 0.2 and no citations, whatever the claim text says
C15_NoEvidenceIsUnverified ==
    (RuleBasedDone /\ evidence = << >>) =>
        /\ DictGet(result, K_verdict, JNull) = JStr(V_unverified)
        /\ DictGet(result, K_confidence, JNull) = JFloat(Frac(2, 10))
        /\ DictGet(result, K_citations, JNull) = JList(<< >>)

\* C15 witness: the verifier has answered without evidence for a claim whose
\* text holds indicator phrases
C15_Witness ==
    /\ RuleBasedDone
    /\ evidence = << >>
    /\ CountIn(true_indicators, Lower(claim)) > 0
    /\ CountIn(misleading_indicators, Lower(claim)) > 0
    /\ DictGet(result, K_verdict, JNull) = JStr(V_unverified)

\* the evidence items whose snippet mentions a word of the claim longer than
\* 4 characters, and of those the ones with confirmation language, the ones
\* with refutation language only, and the others
RelevantItems ==
    {i \in 1..Len(evidence) :
        AnyIn(ClaimKeywords(Lower(claim)), Lower(SnippetOf(evidence[i])))}

SupportingItems ==
    {i \in RelevantItems : AnyIn(supporting_words, Lower(SnippetOf(evidence[i])))}

ContradictingItems ==
    {i \in RelevantItems \ SupportingItems :
        AnyIn(contradicting_words, Lower(SnippetOf(evidence[i])))}

NeutralItems == RelevantItems \ (SupportingItems \cup ContradictingItems)

\* the weights: 1 for each supporting or contradicting item, 0.5 on the
\* supporting side for each neutral one
SupportingWeight ==
    FAdd(FInt(Cardinality(SupportingItems)), Frac(Cardinality(NeutralItems), 2))

ContradictingWeight == FInt(Cardinality(ContradictingItems))

\* min(0.75, 0.5 + 0.1 * weight + 0.05 * evidence_count)
DominantConfidence(weight) ==
    FMin(Frac(3, 4),
         FAdd(Frac(1, 2),
              FAdd(Frac(weight.n, weight.d * 10), Frac(Len(evidence), 20))))

ResultVerdict == DictGet(result, K_verdict, JNull)

ResultConfidence == DictGet(result, K_confidence, JNull)

\* C16 as amended: with evidence, when the supporting weight exceeds the
\* contradicting weight the verdict is true, when the contradicting weight
\* exceeds the supporting weight it is false, each with confidence
\* min(0.75, 0.5 + 0.1 * dominant weight + 0.05 * evidence count); when the weights
\* are equal the verdict comes from the keywords of the claim, with a
\* confidence of 0.7 at most; and a result for evidence with a url or a title
\* has citations
C16_DominantEvidenceDecides ==
    (RuleBasedDone /\ evidence # << >>) =>
        /\ FLt(ContradictingWeight, SupportingWeight) =>
               /\ ResultVerdict = JStr(V_true)
               /\ ResultConfidence = JFloat(DominantConfidence(SupportingWeight))
        /\ FLt(SupportingWeight, ContradictingWeight) =>
               /\ ResultVerdict = JStr(V_false)
               /\ ResultConfidence = JFloat(DominantConfidence(ContradictingWeight))
        /\ SupportingWeight = ContradictingWeight =>
               FLeq(ResultConfidence.n, Frac(7, 10))
        /\ (\E i \in 1..Len(evidence) :
               Len(EvGet(evidence[i], "url", << >>)) > 0
               \/ Len(EvGet(evidence[i], "title", << >>)) > 0) =>
               Len(DictGet(result, K_citations, JNull).items) > 0
        /\ InUnit(ResultConfidence.n)

\* C16 witness: one relevant web item with confirmation language gave true
\* with a confidence in [0.5, 0.75] and a citation
C16_Witness ==
    /\ RuleBasedDone
    /\ Len(evidence) = 1
    /\ SupportingItems = {1}
    /\ evidence[1].type = S_web
    /\ ResultVerdict = JStr(V_true)
    /\ FLeq(Frac(1, 2), ResultConfidence.n)
    /\ FLeq(ResultConfidence.n, Frac(3, 4))
    /\ Len(DictGet(result, K_citations, JNull).items) > 0

\* the cap of 0.75 decides the confidence of a result
CapReached ==
    /\ RuleBasedDone
    /\ FLt(ContradictingWeight, SupportingWeight)
    /\ FLt(Frac(3, 4), FAdd(Frac(1, 2), FAdd(Frac(SupportingWeight.n, SupportingWeight.d * 10),
                                             Frac(Len(evidence), 20))))

\* C16 as stated: with evidence the verdict is true exactly when the
\* supporting weight exceeds the contradicting weight, and the evidence rule
\* gives false exactly when the contradicting weight exceeds the supporting weight
C16_TrueExactlyWhenSupported ==
    (RuleBasedDone /\ evidence # << >>) =>
        /\ ResultVerdict = JStr(V_true) <=> FLt(ContradictingWeight, SupportingWeight)
        /\ FLt(SupportingWeight, ContradictingWeight) => ResultVerdict = JStr(V_false)
----------------------------------------------------------------------------
\* The CredibilityAnalyzer

\* 10 * (0.5 + 0.3 fc + 0.2 ac - 0.4 un + 0.1 established), in whole tenths
Tenths(m) ==
    5 + (IF m.is_fact_checker THEN 3 ELSE 0) + (IF m.is_academic THEN 2 ELSE 0)
      - (IF m.is_unreliable THEN 4 ELSE 0)
      + (IF m.domain_age = Age_established THEN 1 ELSE 0)

\* clamp to [0, 10]
ClampTenths(k) == IF k < 0 THEN 0 ELSE IF k > 10 THEN 10 ELSE k

\* C17: for every combination of the flags is_fact_checker, is_academic and
\* is_unreliable with every domain_age, the trust score that
\* _calculate_trust_score returns is in [0, 1] and is
\* clamp(0.5 + 0.3 fact_checker + 0.2 academic - 0.4 unreliable + 0.1 established)
C17_TrustScoreClamped ==
    trust_score # NotCalled =>
        /\ InUnit(trust_score)
        /\ trust_score = Frac(ClampTenths(Tenths(metrics)), 10)

\* a fact checker that is academic and established: the sum 1.1 is clamped to 1
C17_Witness ==
    /\ trust_score # NotCalled
    /\ Tenths(metrics) > 10
    /\ trust_score = FInt(1)

\* urlparse, or the reading of its result, raises for url
ParseFails(url) == url.t # "str" \/ ~urlparse(url.s).ok

\* analyze_source has returned, and for a URL whose parsing failed the
\* report has trust_score 0.0 and an error
SourceReportSafe ==
    source_report # NotCalled =>
        /\ ~source_report.call.raised
        /\ ParseFails(source_report.url) =>
               /\ source_report.call.value.trust_score = FInt(0)
               /\ "error" \in source_report.call.value.keys

\* the trust scores of the reports of urls, one by one
TrustScores == [i \in 1..Len(urls) |-> analyze_source(urls[i]).value.trust_score]

\* analyze_multiple_sources has returned zeros for no URLs and else the mean
\* of the trust scores of all URLs with their number
SourcesReportIsMean ==
    sources_report # NotCalled =>
        /\ ~sources_report.raised
        /\ sources_report.value.source_count = Len(urls)
        /\ IF Len(urls) = 0
           THEN sources_report.value.average_trust_score = FInt(0)
           ELSE FMul(sources_report.value.average_trust_score, FInt(Len(urls)))
                    = FSum(TrustScores)

\* C18: analyze_source never raises, and for a URL whose parsing fails it
\* returns a report with trust_score 0.0 and an error; analyze_multiple_sources
\* returns average_trust_score 0.0 and source_count 0 for an empty list, and
\* else the mean of the trust scores of the sources with source_count the
\* number of URLs
C18_AnalyzerNeverRaises == SourceReportSafe /\ SourcesReportIsMean

\* a URL that urlparse rejects has been analyzed, and the mean over a list
\* with a rejected URL and a fact checker has been returned: (0.0 + 0.8) / 2
C18_Witness ==
    /\ source_report # NotCalled
    /\ source_report.url = JStr(Url_bracket)
    /\ source_report.call.value.error = Err_ipv6
    /\ sources_report # NotCalled
    /\ urls = <<JStr(Url_bracket), JStr(Url_snopes)>>
    /\ sources_report.value.average_trust_score = Frac(4, 10)

----------------------------------------------------------------------------
\* The verify pipeline

\* entry k of the results is the result of extracted claim k
MatchesClaim(results, k) ==
    /\ results[k].id = extracted_claims[k].id
    /\ results[k].text = extracted_claims[k].claim

\* the results so far are those of the first claims, in extraction order
InExtractionOrder(results) ==
    /\ Len(results) <= Len(extracted_claims)
    /\ \A k \in 1..Len(results) : MatchesClaim(results, k)

\* verification call k is for extracted claim k and is made when the results
\* of the k - 1 claims before it have been appended
OneAtATime ==
    \A k \in 1..Len(verify_calls) :
        /\ k <= Len(extracted_claims)
        /\ verify_calls[k].id = extracted_claims[k].id
        /\ verify_calls[k].appended = k - 1

\* C19: the pipeline processes the extracted claims one at a time in
\* extraction order: no claim is verified before the result of the claim
\* before it has been appended, and when the pipeline returns its result list
\* has exactly one entry per extracted claim, in the same order and with the
\* id and text of that claim
C19_ResultsInExtractionOrder ==
    /\ OneAtATime
    /\ InExtractionOrder(verified_claims)
    /\ stage = "Returned" =>
           /\ http_response.status = 200
           /\ Len(http_response.claims) = Len(extracted_claims)
           /\ InExtractionOrder(http_response.claims)

\* the pipeline has returned the results of two claims
C19_Witness ==
    /\ stage = "Returned"
    /\ Len(extracted_claims) = 2
    /\ Len(http_response.claims) = 2
    /\ Len(verify_calls) = 2
    /\ http_response.claims[1].text # http_response.claims[2].text

\* the debate service is called for the verification
DebateMode == request.mode = "debate" /\ autogen_service # "none"

\* C20: in debate mode the pipeline never fails because of the debate
\* service: whatever the debate call gives (not enabled, an exception, a
\* timeout, or an answer with status 200 and any JSON body), the pipeline
\* appends a result with verdict, confidence and explanation for the claim
C20_DebateNeverFailsPipeline ==
    DebateMode =>
        \A k \in 1..Len(verify_calls) :
            /\ Len(verified_claims) >= k
            /\ MatchesClaim(verified_claims, k)

\* the pipeline has answered 500 after the debate service answered 200 with
\* the body {}
EmptyBodyFailsPipeline ==
    /\ DebateMode
    /\ stage = "Failed"
    /\ Len(verify_calls) = 1
    /\ ~verify_calls[1].outcome.raises
    /\ verify_calls[1].outcome.body = JDict(<< >>)
    /\ verified_claims = << >>
    /\ http_response.status = 500
    /\ http_response.detail = DetailHead \o <<"'">> \o K_verdict \o <<"'">>

----------------------------------------------------------------------------
\* The calls one verify_claim makes

\* the number of attempts of tier in the call in progress
AttemptsOf(tier) == Cardinality({i \in 1..Len(attempts) : attempts[i].tier = tier})

\* C21: one call of verify_claim calls generate exactly once, hence sends at
\* most one request per wire tier, and calls the RuleBasedVerifier at most
\* once; after a failure or a malformed answer, which the RuleBasedVerifier
\* answers, it sends no request again
C21_OneGenerateCall ==
    op = "verify_claim" =>
        /\ call_counts.generate = 1
        /\ call_counts.verifier <= 1
        /\ AttemptsOf("TryPrimaryWireShape") <= 1
        /\ AttemptsOf("TrySecondaryWireShape") <= 1
        /\ call_counts.verifier = 1 => pc = "Done"

\* the primary tier failed, the secondary tier answered with text that is no
\* JSON, and the RuleBasedVerifier has answered the call
C21_Witness ==
    /\ op = "verify_claim"
    /\ pc = "Done"
    /\ call_counts = [generate |-> 1, verifier |-> 1]
    /\ Len(attempts) = 2
    /\ attempts[1].raised
    /\ ~attempts[2].raised
    /\ path = "rule_based"

----------------------------------------------------------------------------
\* Fusion in ClaimExtractor.extract

\* two texts longer than 20 characters of which one holds the other
NearDuplicates(a, b) ==
    /\ Len(a) > 20
    /\ Len(b) > 20
    /\ Contains(a, b) \/ Contains(b, a)

\* C22: after ClaimExtractor.extract no two of the emitted claims, of the same
\* or of different strategies, are near-duplicates: there are no two claims
\* whose lower-cased texts are both longer than 20 characters with one a
\* substring of the other
C22_NoNearDuplicates ==
    ExtractDone =>
        \A i \in 1..Len(extracted) : \A j \in (i + 1)..Len(extracted) :
            ~NearDuplicates(Lower(extracted[i].claim), Lower(extracted[j].claim))

\* the spaCy strategy gave a sentence and a longer sentence that holds it,
\* and extract returned both
NestedSentencesEmitted ==
    /\ ExtractDone
    /\ text = Text_nested
    /\ Len(extracted) = 2
    /\ extracted[1].method = "spacy"
    /\ extracted[2].method = "spacy"
    /\ Contains(Lower(extracted[2].claim), Lower(extracted[1].claim))

\* the text, confidence and method of a claim
Fields(c) == [claim |-> c.claim, confidence |-> c.confidence, method |-> c.method]

\* the candidates cs that are the first of their key, in order
FirstSeen(cs) ==
    LET first == {i \in 1..Len(cs) :
                     \A j \in 1..(i - 1) : DedupKey(cs[j].claim) # DedupKey(cs[i].claim)}
    IN  [k \in 1..Cardinality(first) |->
            cs[CHOOSE i \in first : Cardinality({j \in first : j < i}) = k - 1]]

\* the place of a strategy in the fixed order
StrategyRank(method) ==
    CASE method = "spacy" -> 1
      [] method = "fallback" -> 3
      [] OTHER -> 2

\* candidate c is a duplicate of the accepted claim d
DuplicateOf(c, d) ==
    \/ DedupKey(c.claim) = DedupKey(d.claim)
    \/ IsSimilar(DedupKey(c.claim), DedupKey(d.claim))

\* C23: fusion is first-seen-wins over the order structural, generative,
\* fallback: the claims the structural strategy had accepted stand first with
\* text, confidence and method unchanged, the claims of each later strategy
\* follow, a later candidate that is a duplicate of an accepted claim adds no
\* claim, also when its confidence is the higher one, every later claim has
\* the text and confidence of the first candidate of its key, and the sort
\* changes no text, confidence or method
C23_FirstSeenWins ==
    StrategiesRan =>
        Bind2(FirstSeen(SpacyGave),
              {LlmGave[k] : k \in 1..Len(LlmGave)}
                  \cup {SimpleGave[k] : k \in 1..Len(SimpleGave)},
              LAMBDA sp, later :
            /\ Len(all_claims) >= Len(sp)
            /\ \A k \in 1..Len(sp) :
                   Fields(all_claims[k]) =
                       [claim |-> sp[k].claim, confidence |-> sp[k].confidence,
                        method |-> "spacy"]
            /\ \A i \in 1..Len(all_claims) : \A j \in (i + 1)..Len(all_claims) :
                   StrategyRank(all_claims[i].method) <= StrategyRank(all_claims[j].method)
            /\ \A c \in later : \A k \in 1..Len(sp) :
                   DuplicateOf(c, sp[k]) =>
                       \A n \in (Len(sp) + 1)..Len(all_claims) :
                           DedupKey(all_claims[n].claim) # DedupKey(c.claim)
            /\ \A n \in (Len(sp) + 1)..Len(all_claims) :
                   Bind(IF all_claims[n].method = "fallback" THEN SimpleGave ELSE LlmGave,
                        LAMBDA gave :
                       \E k \in 1..Len(gave) :
                           /\ gave[k].claim = all_claims[n].claim
                           /\ gave[k].confidence = all_claims[n].confidence
                           /\ \A j \in 1..(k - 1) :
                                  DedupKey(gave[j].claim) # DedupKey(gave[k].claim))
            /\ {Fields(extracted[k]) : k \in 1..Len(extracted)}
                   = {Fields(all_claims[k]) : k \in 1..Len(all_claims)}
            /\ Len(extracted) = Len(all_claims))

\* the generative strategy gave, with confidence 0.8, the sentence the
\* structural strategy had given with 0.7, and extract returned it once, as
\* the structural strategy's
C23_Witness ==
    /\ StrategiesRan
    /\ Bind2(FirstSeen(SpacyGave), LlmGave, LAMBDA sp, llm :
           \E k \in 1..Len(llm) : \E n \in 1..Len(sp) :
               /\ DedupKey(llm[k].claim) = DedupKey(sp[n].claim)
               /\ FLt(sp[n].confidence, llm[k].confidence)
               /\ \E m \in 1..Len(extracted) :
                      /\ Fields(extracted[m]) =
                             [claim |-> sp[n].claim, confidence |-> sp[n].confidence,
                              method |-> "spacy"]
                      /\ \A o \in 1..Len(extracted) :
                             o # m => DedupKey(extracted[o].claim) # DedupKey(llm[k].claim))

\* the claims of the generative strategy in a sequence of claims
FromLlm(claims) == {k \in 1..Len(claims) : claims[k].method \in {"llm", "llm_rag"}}

\* the answer holds a JSON array of objects with a text under "claim"
AnswerIsClaimArray ==
    /\ response.t = "str"
    /\ Bind(Loads(CleanClaimsResponse(response.s)), LAMBDA l :
           /\ l.ok
           /\ l.v.t = "list"
           /\ \A i \in 1..Len(l.v.items) : HasClaimText(l.v.items[i]))

\* the answer is a single JSON object
AnswerIsObject ==
    /\ response.t = "str"
    /\ Bind(Loads(CleanClaimsResponse(response.s)), LAMBDA l : l.ok /\ l.v.t = "dict")

\* generate answered with its last tier: no wire tier could be reached
FallbackTierAnswered ==
    Len(attempts) > 0 /\ attempts[Len(attempts)].tier = "RuleBasedFallback"

LoneObjectGaveClaim ==
    /\ StrategiesRan
    /\ LlmEnabled(config)
    /\ response = JStr(Resp_one)
    /\ \E k \in FromLlm(extracted) : extracted[k].claim = DictGet(Loads(Resp_one).v, K_claim, JStr(<< >>)).s

\* the synonyms of each standard verdict
TrueSynonyms == {true_variants[k] : k \in 2..5}

FalseSynonyms == {false_variants[2], false_variants[4], false_variants[5]}

MisleadingSynonyms == {misleading_variants[2], misleading_variants[4], misleading_variants[5]}

\* the standard verdict of a verdict string
StandardVerdict(verdict) ==
    CASE verdict \in TrueSynonyms \cup {V_true} -> V_true
      [] verdict \in FalseSynonyms \cup {V_false} -> V_false
      [] verdict \in MisleadingSynonyms \cup {V_misleading} -> V_misleading
      [] OTHER -> V_unverified

\* C25: normalize_verdict maps correct, accurate, verified, factual to true;
\* incorrect, debunked, disproven to false; partially true, mixed, unclear
\* to misleading; and every other string, unverified included, to unverified
C25_SynonymsToStandard ==
    (Len(normalized) >= 2
        /\ normalized[1] \in TrueSynonyms \cup FalseSynonyms \cup MisleadingSynonyms
                             \cup {V_unverified, Raw_unknown}) =>
        normalized[2] = StandardVerdict(normalized[1])

\* normalize_verdict has returned true for incorrect
IncorrectNormalizedToTrue ==
    /\ Len(normalized) >= 2
    /\ normalized[1] = false_variants[2]
    /\ normalized[2] = V_true

\* normalize_verdict has returned true for partially true
PartiallyTrueNormalizedToTrue ==
    /\ Len(normalized) >= 2
    /\ normalized[1] = misleading_variants[2]
    /\ normalized[2] = V_true

\* normalize_verdict has returned true for unverified
UnverifiedNormalizedToTrue ==
    /\ Len(normalized) >= 2
    /\ normalized[1] = V_unverified
    /\ normalized[2] = V_true

\* the listed synonyms that normalize_verdict maps to their standard verdict
C25_SoundSynonyms ==
    (Len(normalized) >= 2
        /\ normalized[1] \in TrueSynonyms \cup {false_variants[4], false_variants[5],
                                                misleading_variants[4],
                                                misleading_variants[5], Raw_unknown}) =>
        normalized[2] = StandardVerdict(normalized[1])

\* the responses whose normalized verdict is v
Matching(v) == {i \in 1..Len(verdicts) : NormalizedVerdicts[i] = v}

\* the sum of the confidences of the responses in S
RECURSIVE ConfidenceSum(_)
ConfidenceSum(S) ==
    IF S = {} THEN FInt(0)
    ELSE Bind(CHOOSE i \in S : TRUE, LAMBDA i :
             FAdd(ItemConfidence(verdicts[i]), ConfidenceSum(S \ {i})))

\* the sum of the counts of a distribution
RECURSIVE CountSum(_)
CountSum(cs) == IF Len(cs) = 0 THEN 0 ELSE cs[1].n + CountSum(Tail(cs))

\* C26: over a non-empty list the confidence that aggregate_verdicts returns
\* is the arithmetic mean of the confidences of exactly the responses whose
\* normalized verdict is the winning verdict, the counts of the distribution
\* sum to the number of responses, and the confidence is in [0, 1] when every
\* confidence given is
C26_MeanOfWinningVerdict ==
    (aggregate # NotCalled /\ Len(verdicts) > 0) =>
        Bind(Matching(aggregate.verdict), LAMBDA won :
            /\ won # {}
            /\ FMul(aggregate.confidence, FInt(Cardinality(won))) = ConfidenceSum(won)
            /\ CountSum(aggregate.distribution) = Len(verdicts)
            /\ aggregate.count = Len(verdicts)
            /\ (\A i \in 1..Len(verdicts) : InUnit(ItemConfidence(verdicts[i])))
                   => InUnit(aggregate.confidence))

\* C26 witness: two of three responses have the winning verdict, their
\* confidences differ from each other and from the third, and
\* aggregate_verdicts returned the mean of the two
C26_Witness ==
    /\ aggregate # NotCalled
    /\ Len(verdicts) = 3
    /\ Matching(aggregate.verdict) = {1, 3}
    /\ ItemConfidence(verdicts[1]) # ItemConfidence(verdicts[3])
    /\ FLt(aggregate.confidence, ItemConfidence(verdicts[2]))
    /\ aggregate.confidence
           = FDiv(FAdd(ItemConfidence(verdicts[1]), ItemConfidence(verdicts[3])), 2)

\* both aggregators have been applied to the list
BothAggregated == aggregate # NotCalled /\ debate_aggregate # NotCalled

\* C27: for every list of agent responses AutoGenService.aggregate_verdicts
\* and utils/scoring.aggregate_verdicts return the same verdict and the same
\* confidence
C27_DebateAggregatorAgrees ==
    BothAggregated =>
        /\ debate_aggregate.verdict = aggregate.verdict
        /\ debate_aggregate.confidence = aggregate.confidence

\* the two aggregators returned the same verdict with different confidences
AggregatorsDifferInConfidence ==
    /\ BothAggregated
    /\ Len(verdicts) = 2
    /\ debate_aggregate.verdict = aggregate.verdict
    /\ FLt(debate_aggregate.confidence, aggregate.confidence)

\* the debate aggregator returned a verdict that is no standard verdict
AggregatorsDifferInVerdict ==
    /\ BothAggregated
    /\ Len(verdicts) = 1
    /\ aggregate.verdict = V_false
    /\ debate_aggregate.verdict = Raw_false

\* the two aggregators agree on a list whose responses all have the same
\* standard verdict
C27_AgreeOnUnanimousStandard ==
    (BothAggregated
        /\ \E v \in Verdicts \ {V_unverified} :
               \A i \in 1..Len(verdicts) : ItemVerdict(verdicts[i]) = v) =>
        /\ debate_aggregate.verdict = aggregate.verdict
        /\ debate_aggregate.confidence = aggregate.confidence

\* word w stands in s at position p
OccursAt(s, w, p) == p + Len(w) - 1 <= Len(s) /\ SubSeq(s, p, p + Len(w) - 1) = w

\* s has a confirmation word that is not a part of a refutation word
SeparateConfirmation(s) ==
    \E k \in 1..Len(supporting_words) : \E p \in 1..Len(s) :
        /\ OccursAt(s, supporting_words[k], p)
        /\ ~\E r \in 1..Len(contradicting_words) : \E q \in 1..p :
               /\ OccursAt(s, contradicting_words[r], q)
               /\ p + Len(supporting_words[k]) <= q + Len(contradicting_words[r])

\* the snippet has a refutation word and no separate confirmation word
RefutesOnly(snippet_lower) ==
    /\ AnyIn(contradicting_words, snippet_lower)
    /\ ~SeparateConfirmation(snippet_lower)

\* the relevant items whose snippet refutes only
RefutingItems == {i \in RelevantItems : RefutesOnly(Lower(SnippetOf(evidence[i])))}

\* C28: every relevant evidence item whose snippet has a refutation word and
\* no separate confirmation word is counted as contradicting and adds nothing
\* to the supporting weight: when all relevant items are such items, the
\* RuleBasedVerifier returns false with the confidence of that many
\* contradicting items
C28_RefutationCountsAsContradicting ==
    (RuleBasedDone /\ RefutingItems # {}) =>
        /\ RefutingItems \subseteq ContradictingItems
        /\ RefutingItems = RelevantItems =>
               /\ ResultVerdict = JStr(V_false)
               /\ ResultConfidence
                      = JFloat(DominantConfidence(FInt(Cardinality(RefutingItems))))

\* the only relevant item has incorrect as its only signal word, and the
\* RuleBasedVerifier returned true
IncorrectCountedAsSupporting ==
    /\ RuleBasedDone
    /\ evidence = <<Ev_incorrect>>
    /\ RefutingItems = {1}
    /\ SupportingItems = {1}
    /\ ResultVerdict = JStr(V_true)

\* the items with debunk as their only signal word are counted as contradicting
C28_DebunkCountsAsContradicting ==
    (RuleBasedDone /\ RelevantItems = {i \in 1..Len(evidence) : evidence[i] = Ev_refute}
        /\ RelevantItems # {}) =>
        /\ ResultVerdict = JStr(V_false)
        /\ ResultConfidence = JFloat(DominantConfidence(FInt(1)))

\* what _rule_based_verify_claim returns for the first 5 items of the evidence
ResultOfTopFive == rule_based_verify_claim(claim, Prefix(evidence, TopEvidence))

\* the prompt of verify_claim is that of the first 5 items, and so is what
\* the backend is asked and what an answer that parses gives
PromptFromTopFive ==
    (op = "verify_claim" /\ pc # "Idle") =>
        prompt = format_json_prompt(VerifyPrompt(claim, Prefix(evidence, TopEvidence)))

SixthItemDecided ==
    /\ RuleBasedDone
    /\ claim = Claim_earth
    /\ evidence = FiveItems \o <<Ev_refute>>
    /\ ResultVerdict = JStr(V_false)
    /\ DictGet(ResultOfTopFive, K_verdict, JNull) = JStr(V_unverified)

\* the citations of the RuleBasedVerifier are those of the first 5 items
C29_CitationsFromTopFive ==
    /\ PromptFromTopFive
    /\ RuleBasedDone =>
           DictGet(result, K_citations, JNull) = DictGet(ResultOfTopFive, K_citations, JNull)

\* a result with verdict unverified, confidence 0.0 and no agent responses
IsNeutral(value) ==
    /\ value.t = "dict"
    /\ DictGet(value, K_verdict, JNull) = JStr(V_unverified)
    /\ DictGet(value, K_confidence, JNull) = JFloat(FInt(0))
    /\ DictGet(value, K_agent_responses, JNull) = JList(<< >>)

\* C30: when the debate service is not enabled or has no endpoint,
\* debate_claim sends no request and returns verdict unverified, confidence
\* 0.0 and no agent responses; when the request raises or times out it
\* returns the same neutral result and does not raise
C30_DebateDisabledGracefully ==
    \A k \in 1..Len(verify_calls) :
        verify_calls[k].debate =>
            /\ autogen_service = "disabled" =>
                   /\ ~verify_calls[k].sent
                   /\ IsNeutral(verify_calls[k].returned)
                   /\ DictGet(verify_calls[k].returned, K_explanation, JNull)
                          = JStr(ExplNotEnabled)
            /\ (autogen_service = "enabled" /\ verify_calls[k].outcome.raises) =>
                   /\ verify_calls[k].sent
                   /\ IsNeutral(verify_calls[k].returned)
                   /\ Len(verified_claims) >= k
            /\ autogen_service = "enabled" => verify_calls[k].sent

\* C30 witness: the debate service is not enabled, debate_claim was called
\* for a claim, sent nothing and returned the neutral result, and the
\* pipeline went on with it
C30_Witness ==
    /\ autogen_service = "disabled"
    /\ request.mode = "debate"
    /\ Len(verify_calls) >= 1
    /\ verify_calls[1].debate
    /\ ~verify_calls[1].sent
    /\ IsNeutral(verify_calls[1].returned)
    /\ Len(verified_claims) >= 1

\* the request to the debate service timed out and debate_claim returned the
\* neutral result
DebateTimedOutNeutral ==
    /\ autogen_service = "enabled"
    /\ Len(verify_calls) >= 1
    /\ verify_calls[1].debate
    /\ verify_calls[1].sent
    /\ verify_calls[1].outcome.raises
    /\ verify_calls[1].outcome.error = Err_timeout
    /\ IsNeutral(verify_calls[1].returned)
    /\ DictGet(verify_calls[1].returned, K_explanation, JNull)
           = JStr(ExplUnavailable \o Err_timeout)
    /\ Len(verified_claims) >= 1

====
